---- MODULE Spec2Model ----
(***************************************************************************)
(* A model of slack-stealth-mcp: the rate controller and request pipeline *)
(* of SlackClient, the WorkspaceManager registry with reload_config, and  *)
(* the unread reconciliation of tools/get_unread.py.                      *)
(*                                                                         *)
(* The specifications share the module.  Each one drives its own group of *)
(* variables and leaves the other groups at their initial value:          *)
(*   SpecRL  concurrent tasks calling SlackClient._request on one client  *)
(*   SpecWM  WorkspaceManager.reload_config against tasks holding clients *)
(*   SpecGU  one run of _get_unread_for_workspace                         *)
(*   SpecMF  one run of _get_unread_for_workspace that asks for the       *)
(*           mentions alone, with search results of more than ten hits    *)
(*   SpecMT  get_unread over the tenants of the manager                   *)
(*   SpecUC  sequential get_user_info and prefetch_users calls on one     *)
(*           client's user cache                                          *)
(*   SpecLW  SlackClient.list_conversations, the listing walk             *)
(*   SpecCL  the operations of one client over its lifetime: listing,     *)
(*           user resolution and close                                    *)
(*   SpecRF  the request pipeline under a fair scheduler                  *)
(*   SpecRW  the watermark cache of one client: mark_conversation,        *)
(*           get_last_read, set_last_read and the listing walk            *)
(*   SpecTL  the tools of the server and the requests they issue          *)
(*   SpecTI  two tenants' clients, one calling task on each               *)
(*   SpecSC  one run of get_unread with its default arguments on a        *)
(*           workspace of unread DMs and channels without watermark       *)
(*   SpecBT  the batch loop of one probing phase over more conversations  *)
(*           than one batch holds                                         *)
(*   SpecBO  backoff() and reset_backoff() called on one RateLimiter in    *)
(*           any order                                                    *)
(*   SpecDV  check_dm_unread, the probe of one DM-kind conversation       *)
(*   SpecAP  the author ids of one run: collected, prefetched, looked up  *)
(*   SpecCW  one run of _get_unread_for_workspace against a server whose  *)
(*           history answers follow from the newest message it holds      *)
(***************************************************************************)
EXTENDS Integers, Sequences, FiniteSets, TLC

VARIABLES
    \* ---- SpecRL: one SlackClient, its RateLimiter and its callers ----
    since,       \* time.monotonic() - RateLimiter._last_request, in ticks, capped at SinceCap
    backoff,     \* RateLimiter._backoff
    lock,        \* RateLimiter._lock: 0 when free, else the task that holds it
    pc,          \* per task: where it is inside _request
    timer,       \* per task: ticks left of the asyncio.sleep(wait_time) of acquire()
    mread,       \* per task: the _backoff value its acquire() read at line 38
    req,         \* per task: the method of the _request call it is in ("none" outside)
    wire,        \* per task: the method of its HTTP call in flight ("none" when there is none)
    attempts,    \* per task: HTTP calls issued so far by the _request call it is in
    lastResp,    \* per task: class of the last response of the current _request call
    hdr,         \* per task: Retry-After header of a rate-limit response (NoHeader: absent)
    retry_after, \* per task: the delay handed to asyncio.sleep at lines 144 / 155
    outcome,     \* per task: what _request delivered to its caller
    ratelimits,  \* rate-limit responses the server has sent so far
    \* ---- SpecWM: the WorkspaceManager, its clients and their callers ----
    config,      \* WorkspaceManager._config
    clients,     \* WorkspaceManager._clients: name -> client object (0: not registered)
    objs,        \* the live SlackClient objects, by object number
    held,        \* the client object a tool handler got from get_client and still uses (0: none)
    rpc,         \* where reload_config is: "idle", or the loop it is suspended in
    closing,     \* reload_config: the name whose client it is closing
    new_config,  \* reload_config: the configuration it loaded
    todo,        \* reload_config: the names its current loop has still to visit
    changes,     \* reload_config: its changes dict
    prev_names,  \* the names that were registered when the last reload_config began
    closed_now,  \* the names whose registered client the last reload_config called close() on
    built_now,   \* the names the last reload_config constructed a SlackClient for
    result,      \* what the last reload_config returned: "none", "ok" or "error"
    lastCall,    \* tenant and credentials of the last call the handler issued since
                 \* reload_config was last entered or left
    answer,      \* the manager call that has just returned or raised, and how
    \* ---- SpecGU: one run of _get_unread_for_workspace ----
    max_conversations_to_check, \* argument
    max_dms_to_scan,            \* argument
    include,     \* arguments include_dms, include_channels, include_mentions
    gpc,         \* where the run is
    phase,       \* "dm": lines 47-160, "channel": lines 164-253
    to_check,    \* len(dms_to_check) / len(channels_to_check)
    batch_i,     \* the batch loop's i
    probe,       \* per conversation of the current batch: where its check_*_unread is;
                 \* "done": it returned from the try block, "failed": from the except clause
    detailed,    \* per conversation of the current batch: the fields of what
                 \* get_conversation_info returned that are read after the count test
                 \* (NoDetail once check_*_unread has returned None)
    results,     \* per conversation of the current batch: what check_*_unread returned
    with_unread, \* dm_convs_with_unread / channel_convs_with_unread
    fetched,     \* how many entries the message-fetch loop has done
    checked_count,
    remaining_budget,
    unread_dms,
    unread_channels,
    user_ids_to_prefetch, \* whether the set is non-empty
    found,       \* len(results.messages): the hits the mention search returned
    hits,        \* search hits the mention filter has still to visit
    lastHit,     \* channel and timestamp of the hit the filter loop visited last,
                 \* and whether get_conversation_info was called for it
    channel_read_cache,
    mentions,    \* len(mentions)
    infoCalls,   \* get_conversation_info calls issued by the check_*_unread probes of
                 \* the phase the run is in
    lastHistory, \* <<call site, oldest>> of the last get_conversation_history call
                 \* issued in the current batch or message-fetch loop
    \* ---- SpecMT: one call of get_unread ----
    workspace_names,     \* WorkspaceManager.workspace_names: the keys of _clients, in order
    mpc,                 \* where get_unread is: "start", "loop" or "done"
    workspaces_to_check, \* the names get_unread iterates over
    all_results,         \* one entry per name visited
    raised_at,           \* the positions at which _get_unread_for_workspace raised
    returned,            \* what get_unread returned
    \* ---- SpecUC: the user cache of one SlackClient ----
    users_cache, \* SlackClient._users_cache: the profile cached for each user id
    upc,         \* "idle", or "info": get_user_info awaits the answer of users.info
    ucall,       \* the last call of get_user_info or prefetch_users and what it did
    info_ok,     \* per user id, the users.info requests that succeeded
    http,        \* SlackClient._client is not None
    \* ---- SpecLW: SlackClient.list_conversations on that client ----
    conversations_cache, \* the ids that have an entry in SlackClient._conversations_cache
    last_read_cache,     \* SlackClient._last_read_cache (NoTs: no entry)
    wop,                 \* the last mark_conversation, get_last_read or set_last_read call
    lpc,           \* "idle", "page" (in the loop), "done" (returned) or "raised"
    cursor,        \* the local cursor
    conversations, \* the local conversations, as ids; the first MaxWalk items
    last_page,     \* the last answer of conversations.list: its items and next_cursor
    last_sent,     \* the cursor parameter of the last request (NoCursor: none)
    requests,      \* conversations.list requests issued by the call, counted to MaxWalk + 1
    \* ---- SpecTL: the tools of server.py on one tenant ----
    tool,             \* the tool call_tool is running ("none": none)
    treq,             \* the last request the running tool issued
    server_last_read, \* per conversation, the read watermark the server holds
    \* ---- SpecTI: the clients of two tenants, one calling task on each ----
    limiter,     \* per RateLimiter object: age of _last_request in ticks, _backoff, and
                 \* the tenant whose task holds _lock (0: free)
    cpc,         \* per tenant: where its task is in _request
    ctimer,      \* per tenant: ticks left of the sleep of acquire()
    ccached,     \* per tenant: its client has cached an answer
    served429,   \* rate-limit responses the server has sent so far
    actor,       \* the tenant whose task took the last step (0: the clock)
    \* ---- SpecCW: the messages the server holds ----
    server_newest, \* per conversation, the timestamp of its newest message (NoTs: none)
    \* ---- SpecBT: the batch loop of one probing phase ----
    bpc,         \* "idle", "gather" (awaiting asyncio.gather) or "ranked" (loop over)
    to_probe,    \* len(dms_to_check) / len(channels_to_check)
    batch_start, \* the loop variable i
    probe_task,  \* per conversation of the list: "none", "flight" or "done"
    \* ---- SpecDV: check_dm_unread on one conversation ----
    vpc,         \* "idle", "info", "latest", "count" or "returned"
    detail,      \* the answer of get_conversation_info (NoInfo: none yet)
    msgs,        \* the ts of the newest message, as the limit=1 history call answered it
    unread_msgs, \* len(unread_msgs) of the limit=10 history call (NoResult: not made)
    raised,      \* a call of the probe raised
    verdict,     \* the count check_dm_unread returned (NoResult: it returned None)
    \* ---- SpecAP: the author ids of one run of _get_unread_for_workspace ----
    apc,         \* "start", "dms", "dm_fetch", "channels", "returned" or "raised"
    prefetch_ids,   \* the set user_ids_to_prefetch
    dm_users,       \* conv.user of the conversations in dm_convs_with_unread
    prefetch_calls, \* the prefetch_users calls of the DM and channel phases, in order
    name_lookups    \* the _get_cached_user_name calls made for the entries

varsRL == <<since, backoff, lock, pc, timer, mread, req, wire, attempts,
            lastResp, hdr, retry_after, outcome, ratelimits>>

varsWM == <<config, clients, objs, held, rpc, closing, new_config, todo, changes,
            prev_names, closed_now, built_now, result, lastCall, answer>>

varsGU == <<max_conversations_to_check, max_dms_to_scan, include, gpc, phase,
            to_check, batch_i, probe, detailed, results, with_unread, fetched,
            checked_count, remaining_budget, unread_dms, unread_channels,
            user_ids_to_prefetch, found, hits, lastHit, channel_read_cache,
            mentions, infoCalls, lastHistory>>

varsMT == <<workspace_names, mpc, workspaces_to_check, all_results, raised_at,
            returned>>

userVars == <<users_cache, upc, ucall, info_ok>>

walkVars == <<conversations_cache, last_read_cache, wop, lpc, cursor, conversations, last_page, last_sent,
              requests>>

varsUC == <<userVars, http, walkVars>>

varsTL == <<tool, treq, server_last_read>>

varsTI == <<limiter, cpc, ctimer, ccached, served429, actor>>

varsSV == <<server_newest>>

varsBT == <<bpc, to_probe, batch_start, probe_task>>

varsDV == <<vpc, detail, msgs, unread_msgs, raised, verdict>>

varsAP == <<apc, prefetch_ids, dm_users, prefetch_calls, name_lookups>>

\* what the actions of each specification leave alone
restRL ==
    <<varsWM, varsGU, varsMT, varsUC, varsTL, varsTI, varsSV, varsBT, varsDV, varsAP>>
restWM ==
    <<varsRL, varsGU, varsMT, varsUC, varsTL, varsTI, varsSV, varsBT, varsDV, varsAP>>
restGU ==
    <<varsRL, varsWM, varsMT, varsUC, varsTL, varsTI, varsSV, varsBT, varsDV, varsAP>>
restMT ==
    <<varsRL, varsWM, varsGU, varsUC, varsTL, varsTI, varsSV, varsBT, varsDV, varsAP>>
restUC ==
    <<varsRL, varsWM, varsGU, varsMT, varsTL, varsTI, varsSV, varsBT, varsDV, varsAP>>

restTL ==
    <<varsRL, varsWM, varsGU, varsMT, varsUC, varsTI, varsSV, varsBT, varsDV, varsAP>>
restTI ==
    <<varsRL, varsWM, varsGU, varsMT, varsUC, varsTL, varsSV, varsBT, varsDV, varsAP>>
restBT ==
    <<varsRL, varsWM, varsGU, varsMT, varsUC, varsTL, varsTI, varsSV, varsDV, varsAP>>
restDV ==
    <<varsRL, varsWM, varsGU, varsMT, varsUC, varsTL, varsTI, varsSV, varsBT, varsAP>>
restAP ==
    <<varsRL, varsWM, varsGU, varsMT, varsUC, varsTL, varsTI, varsSV, varsBT, varsDV>>

vars == <<varsRL, varsWM, varsGU, varsMT, varsUC, varsTL, varsTI, varsSV, varsBT,
         varsDV, varsAP>>

Min(a, b) == IF a <= b THEN a ELSE b
Max(a, b) == IF a >= b THEN a ELSE b

(***************************************************************************)
(* Bounds of the model.                                                    *)
(***************************************************************************)
\* concurrent callers of one client
NumTasks == 2
\* rate-limit responses the server sends in one run
MaxRateLimits == 1

\* tenant names a configuration can hold
NumNames == 2
\* conversations a listing call returns
MaxListed == 2
\* largest max_conversations_to_check
MaxBudget == 2
\* largest max_dms_to_scan
MaxScan == 2
\* messages a history call returns
MaxMessages == 1
\* hits the mention search returns
MaxHits == 1
\* hits the mention search returns in a run that asks for the mentions alone
MaxFound == 11
\* user identifiers
NumUsers == 2
\* profiles the remote can answer for a user
NumProfiles == 2
\* successful users.info requests counted per user
MaxFetches == 2
\* pages of a listing walk that are recorded and counted
MaxWalk == 3
\* largest unread count a detail answer reports to the probe of one DM
MaxCount == 2
\* messages after the watermark the server holds beyond the limit of the count fetch
MaxOver == 1
\* conversations a phase has to probe beyond one full batch
MaxExtra == 2
\* backoff() calls made on one RateLimiter
MaxBackoffCalls == 20
\* continuation cursors the server hands out
NumCursors == 2

Tasks == 1..NumTasks

(***************************************************************************)
(* RateLimiter (slack_client.py 20-49).  Time is counted in ticks of 0.6 s *)
(* so that the interval 60.0 / 50 = 1.2 s is 2 ticks.  Retry-After delays *)
(* are in seconds.                                                        *)
(***************************************************************************)
Interval == 2
MaxBackoff == 60
RetryAfterDefault == 60

\* a doubling without a ceiling
BackoffValue_Unbounded(m) == m * 2

\* RateLimiter.backoff, line 45
BackoffValue(m) == Min(m * 2, MaxBackoff)

\* RateLimiter.reset_backoff, line 49
ResetValue == 1

RECURSIVE BackoffAfter(_)
\* the multiplier after n consecutive backoff() calls
BackoffAfter(n) == IF n = 0 THEN ResetValue ELSE BackoffValue(BackoffAfter(n - 1))

\* beyond this age of _last_request no multiplier the run can reach makes acquire() wait
SinceCap == Interval * BackoffAfter(MaxRateLimits)

\* Retry-After values the server sends, in seconds, and the absent header
NoHeader == -1
RetryAfterHeaders == {3}

Methods == {"GET", "POST"}

RateLimitSignals == {"soft_ratelimited", "http_429"}
HardErrors == {"soft_error", "http_error", "transport_error"}
Responses == {"ok"} \cup RateLimitSignals \cup HardErrors

\* a wait that forgets the multiplier
WaitTime_NoBackoff(m) == Interval - since

\* RateLimiter.acquire, line 38: wait_time
WaitTime(m) == Interval * m - since

\* a retry that does not wait when the header is absent
RetryAfter_NoDefault(h) == IF h = NoHeader THEN 0 ELSE h

\* int(response.headers.get("Retry-After", 60)), lines 143 and 154
RetryAfter(h) == IF h = NoHeader THEN RetryAfterDefault ELSE h

InitRLVars ==
    /\ since = SinceCap
    /\ backoff = 1
    /\ lock = 0
    /\ pc = [t \in Tasks |-> "idle"]
    /\ timer = [t \in Tasks |-> 0]
    /\ mread = [t \in Tasks |-> 1]
    /\ req = [t \in Tasks |-> "none"]
    /\ wire = [t \in Tasks |-> "none"]
    /\ attempts = [t \in Tasks |-> 0]
    /\ lastResp = [t \in Tasks |-> "none"]
    /\ hdr = [t \in Tasks |-> NoHeader]
    /\ retry_after = [t \in Tasks |-> 0]
    /\ outcome = [t \in Tasks |-> "none"]
    /\ ratelimits = 0

\* a caller enters _request(method, endpoint, ...)
Call(t) ==
    /\ pc[t] = "idle"
    /\ \E m \in Methods : req' = [req EXCEPT ![t] = m]
    /\ pc' = [pc EXCEPT ![t] = "acquire"]
    /\ lastResp' = [lastResp EXCEPT ![t] = "none"]
    /\ outcome' = [outcome EXCEPT ![t] = "none"]
    /\ UNCHANGED <<since, backoff, lock, timer, mread, wire, attempts, hdr,
                   retry_after, ratelimits>>
    /\ UNCHANGED restRL

\* an acquire() that does not take the lock
LockFree_Unlocked == TRUE

\* a lock that a task keeps while it sleeps for Retry-After
LockFree_NoRetrySleep == lock = 0 /\ \A t \in Tasks : pc[t] # "retry_sleep"

\* async with self._lock (line 36): the lock is taken only when it is free
LockFree == lock = 0

\* an acquire() that leaves the block without releasing when it did not sleep
AcquireEnter_KeepsLock(t) ==
    /\ pc[t] = "acquire"
    /\ LockFree
    /\ lock' = t
    /\ IF WaitTime(backoff) > 0
         THEN /\ mread' = [mread EXCEPT ![t] = backoff]
              /\ timer' = [timer EXCEPT ![t] = WaitTime(backoff)]
              /\ pc' = [pc EXCEPT ![t] = "rl_sleep"]
              /\ UNCHANGED since
         ELSE /\ since' = 0
              /\ pc' = [pc EXCEPT ![t] = "send"]
              /\ UNCHANGED <<timer, mread>>
    /\ UNCHANGED <<backoff, req, wire, attempts, lastResp, hdr, retry_after, outcome, ratelimits>>
    /\ UNCHANGED restRL

\* acquire(), lines 36-41, up to its first suspension: with no wait the stamp
\* and the release follow in the same step
AcquireEnter(t) ==
    /\ pc[t] = "acquire"
    /\ LockFree
    /\ IF WaitTime(backoff) > 0
         THEN /\ lock' = t
              /\ mread' = [mread EXCEPT ![t] = backoff]
              /\ timer' = [timer EXCEPT ![t] = WaitTime(backoff)]
              /\ pc' = [pc EXCEPT ![t] = "rl_sleep"]
              /\ UNCHANGED since
         ELSE /\ lock' = 0
              /\ since' = 0
              /\ pc' = [pc EXCEPT ![t] = "send"]
              /\ UNCHANGED <<timer, mread>>
    /\ UNCHANGED <<backoff, req, wire, attempts, lastResp, hdr, retry_after, outcome, ratelimits>>
    /\ UNCHANGED restRL

\* asyncio.sleep(wait_time) is over (line 40)
SleepOver(t) == timer[t] = 0

\* acquire(), line 41 after the sleep: stamp and release
AcquireWake(t) ==
    /\ pc[t] = "rl_sleep"
    /\ SleepOver(t)
    /\ since' = 0
    /\ lock' = IF lock = t THEN 0 ELSE lock
    /\ mread' = [mread EXCEPT ![t] = 1]
    /\ pc' = [pc EXCEPT ![t] = "send"]
    /\ UNCHANGED <<backoff, timer, req, wire, attempts, lastResp, hdr,
                   retry_after, outcome, ratelimits>>
    /\ UNCHANGED restRL

\* lines 128-134: the HTTP call goes out
Send(t) ==
    /\ pc[t] = "send"
    /\ wire' = [wire EXCEPT ![t] = req[t]]
    /\ attempts' = [attempts EXCEPT ![t] = @ + 1]
    /\ pc' = [pc EXCEPT ![t] = "inflight"]
    /\ UNCHANGED <<since, backoff, lock, timer, mread, req, lastResp, hdr,
                   retry_after, outcome, ratelimits>>
    /\ UNCHANGED restRL

\* a pipeline that also retries soft errors
Retried_SoftErrors(r) == r \in RateLimitSignals \cup {"soft_error"}

\* lines 141 and 152: which responses make _request back off and retry
Retried(r) == r \in RateLimitSignals

\* lines 146 and 157 raise SlackAPIError; no except clause of _request catches
\* what client.get / client.post raise on a transport failure
Raised(r) ==
    IF r \in {"soft_error", "http_error"} THEN "SlackAPIError" ELSE "TransportError"

\* lines 136-157: the response of the call in flight is classified
Respond(t, r, h) ==
    /\ pc[t] = "inflight"
    /\ lastResp' = [lastResp EXCEPT ![t] = r]
    /\ IF r = "ok"
         THEN /\ backoff' = ResetValue
              /\ outcome' = [outcome EXCEPT ![t] = "returned"]
              /\ pc' = [pc EXCEPT ![t] = "idle"]
              /\ UNCHANGED <<hdr, retry_after, ratelimits>>
         ELSE IF Retried(r)
         THEN /\ ratelimits < MaxRateLimits
              /\ ratelimits' = ratelimits + 1
              /\ backoff' = BackoffValue(backoff)
              /\ hdr' = [hdr EXCEPT ![t] = h]
              /\ retry_after' = [retry_after EXCEPT ![t] = RetryAfter(h)]
              /\ pc' = [pc EXCEPT ![t] = "retry_sleep"]
              /\ UNCHANGED outcome
         ELSE /\ outcome' = [outcome EXCEPT ![t] = Raised(r)]
              /\ pc' = [pc EXCEPT ![t] = "idle"]
              /\ UNCHANGED <<backoff, hdr, retry_after, ratelimits>>
    /\ wire' = [wire EXCEPT ![t] = "none"]
    /\ req' = [req EXCEPT ![t] = IF Retried(r) THEN @ ELSE "none"]
    /\ attempts' = [attempts EXCEPT ![t] = IF Retried(r) THEN @ ELSE 0]
    /\ UNCHANGED <<since, lock, timer, mread>>
    /\ UNCHANGED restRL

\* the retry issues its call without passing the rate controller again
RetryWake_NoAcquire(t) ==
    /\ pc[t] = "retry_sleep"
    /\ pc' = [pc EXCEPT ![t] = "send"]
    /\ hdr' = [hdr EXCEPT ![t] = NoHeader]
    /\ retry_after' = [retry_after EXCEPT ![t] = 0]
    /\ lastResp' = [lastResp EXCEPT ![t] = "none"]
    /\ UNCHANGED <<since, backoff, lock, timer, mread, req, wire, attempts,
                   outcome, ratelimits>>
    /\ UNCHANGED restRL

\* lines 144-145 and 155-156: asyncio.sleep(retry_after) is over and _request
\* calls itself with the same arguments.  The sleep is not measured against
\* the tick clock: it may end after any number of ticks.
RetryWake(t) ==
    /\ pc[t] = "retry_sleep"
    /\ pc' = [pc EXCEPT ![t] = "acquire"]
    /\ hdr' = [hdr EXCEPT ![t] = NoHeader]
    /\ retry_after' = [retry_after EXCEPT ![t] = 0]
    /\ lastResp' = [lastResp EXCEPT ![t] = "none"]
    /\ UNCHANGED <<since, backoff, lock, timer, mread, req, wire, attempts,
                   outcome, ratelimits>>
    /\ UNCHANGED restRL

\* the monotonic clock advances by one tick
Tick ==
    /\ \/ since < SinceCap
       \/ \E t \in Tasks : timer[t] > 0
    /\ since' = Min(since + 1, SinceCap)
    /\ timer' = [t \in Tasks |-> Max(timer[t] - 1, 0)]
    /\ UNCHANGED <<backoff, lock, pc, mread, req, wire, attempts, lastResp,
                   hdr, retry_after, outcome, ratelimits>>
    /\ UNCHANGED restRL

\* RateLimiter.backoff (lines 43-45), called as _request calls it for a
\* rate-limit answer (lines 142 and 153)
Backoff ==
    /\ ratelimits < MaxBackoffCalls
    /\ ratelimits' = ratelimits + 1
    /\ backoff' = BackoffValue(backoff)
    /\ UNCHANGED <<since, lock, pc, timer, mread, req, wire, attempts, lastResp,
                   hdr, retry_after, outcome>>
    /\ UNCHANGED restRL

\* RateLimiter.reset_backoff (lines 47-49)
ResetBackoff ==
    /\ backoff' = ResetValue
    /\ UNCHANGED <<since, lock, pc, timer, mread, req, wire, attempts, lastResp,
                   hdr, retry_after, outcome, ratelimits>>
    /\ UNCHANGED restRL

NextBO ==
    \/ Backoff
    \/ ResetBackoff

NextRL ==
    \/ \E t \in Tasks : Call(t)
    \/ \E t \in Tasks : AcquireEnter(t)
    \/ \E t \in Tasks : AcquireWake(t)
    \/ \E t \in Tasks : Send(t)
    \/ \E t \in Tasks, r \in Responses, h \in RetryAfterHeaders \cup {NoHeader} :
           Respond(t, r, h)
    \/ \E t \in Tasks : RetryWake(t)
    \/ Tick

(***************************************************************************)
(* WorkspaceManager (workspace.py) and the part of SlackClient it uses:   *)
(* __init__, _ensure_client, close (slack_client.py 64-106).              *)
(***************************************************************************)
Names == 1..NumNames

\* a credential pair <<xoxc_token, xoxd_cookie>>; Absent: the name is not configured
Absent == <<0, 0>>
Creds == {<<1, 1>>, <<2, 1>>, <<1, 2>>}

NoName == 0

\* Object numbers.  The client registered under name n is object n; a client the
\* dict has let go of while a handler still holds it is object Detached.  An
\* object nobody refers to is gone.
Detached == NumNames + 1

Objects == 1..Detached

\* _load_from_file, config.py lines 50-62: the default is the first workspace
\* when the file names none
FirstName(ws) ==
    IF \A n \in Names : ws[n] = Absent THEN NoName
    ELSE CHOOSE n \in Names : ws[n] # Absent /\ \A k \in Names : k < n => ws[k] = Absent

\* the credentials the file can hold for name n: for tenant 1 it is the token
\* that changes between loads, for the other tenants the cookie
CredsOf(n) == {c \in Creds : IF n = 1 THEN c[2] = 1 ELSE c[1] = 1}

\* the configurations load_config can return
Configs ==
    {[workspaces |-> ws, default_workspace |-> FirstName(ws)] :
        ws \in {w \in [Names -> Creds \cup {Absent}] :
                   \A n \in Names : w[n] \in CredsOf(n) \cup {Absent}}}

Configured(cfg) == {n \in Names : cfg.workspaces[n] # Absent}

Registered == {n \in Names : clients[n] # 0}

NoChanges == [added |-> {}, removed |-> {}, updated |-> {}]

\* no get_client or close_all call has returned since the last other step
NoAnswer == [op |-> "none", arg |-> NoName, error |-> "none", listed |-> {}]

\* SlackClient.__init__, lines 64-78: the object keeps its configuration and has
\* no HTTP client yet
NewClient(n, cr) == [name |-> n, creds |-> cr, http |-> FALSE]

\* an object number no object lives at
Free == [name |-> NoName, creds |-> Absent, http |-> FALSE]

\* WorkspaceManager.__init__, lines 20-25: one client per configured workspace
InitWMVars ==
    /\ config \in Configs
    /\ clients = [n \in Names |-> IF n \in Configured(config) THEN n ELSE 0]
    /\ objs = [o \in Objects |->
                 IF o \in Configured(config) THEN NewClient(o, config.workspaces[o])
                 ELSE Free]
    /\ held = 0
    /\ rpc = "idle"
    /\ closing = NoName
    /\ new_config = config
    /\ todo = {}
    /\ changes = NoChanges
    /\ prev_names = Registered
    /\ closed_now = {}
    /\ built_now = {}
    /\ result = "none"
    /\ lastCall = <<>>
    /\ answer = NoAnswer

\* reload_config lines 124-127: the token or the cookie differs
CredsDiffer_TokenOnly(a, b) == a[1] # b[1]

CredsDiffer_Always(a, b) == TRUE

CredsDiffer(a, b) == a[1] # b[1] \/ a[2] # b[2]

First(S) == CHOOSE n \in S : \A k \in S : n <= k

\* what reload_config works on, as one record
Cur ==
    [config |-> config, clients |-> clients, objs |-> objs, held |-> held,
     rpc |-> rpc, closing |-> closing, todo |-> todo, changes |-> changes,
     closed_now |-> closed_now, built_now |-> built_now, result |-> result]

\* the dict lets go of the client of n (del at line 114, the assignment at line
\* 129): the object lives on only if a handler holds it
Drop(m, n) ==
    IF m.held = n
    THEN [m EXCEPT !.objs = [@ EXCEPT ![Detached] = m.objs[n], ![n] = Free],
                   !.held = Detached,
                   !.clients = [@ EXCEPT ![n] = 0]]
    ELSE [m EXCEPT !.objs = [@ EXCEPT ![n] = Free],
                   !.clients = [@ EXCEPT ![n] = 0]]

\* close() lines 102-106 has returned for the client of n
AfterClose(m, n) ==
    [m EXCEPT !.objs = [@ EXCEPT ![n] = [@ EXCEPT !.http = FALSE]],
              !.closed_now = @ \cup {n}]

\* lines 113-115, from the return of close()
AfterRemoveClose(m, n) ==
    LET d == Drop(AfterClose(m, n), n)
    IN  [d EXCEPT !.changes = [@ EXCEPT !.removed = @ \cup {n}]]

\* lines 128-130, from the return of close()
AfterUpdateClose(m, n, cfg) ==
    LET d == Drop(AfterClose(m, n), n)
    IN  [d EXCEPT !.objs = [@ EXCEPT ![n] = NewClient(n, cfg.workspaces[n])],
                  !.clients = [@ EXCEPT ![n] = n],
                  !.built_now = @ \cup {n},
                  !.changes = [@ EXCEPT !.updated = @ \cup {n}]]

\* lines 119-121
AfterAdd_AsUpdated(m, n, cfg) ==
    [m EXCEPT !.objs = [@ EXCEPT ![n] = NewClient(n, cfg.workspaces[n])],
              !.clients = [@ EXCEPT ![n] = n],
              !.built_now = @ \cup {n},
              !.changes = [@ EXCEPT !.updated = @ \cup {n}]]

AfterAdd(m, n, cfg) ==
    [m EXCEPT !.objs = [@ EXCEPT ![n] = NewClient(n, cfg.workspaces[n])],
              !.clients = [@ EXCEPT ![n] = n],
              !.built_now = @ \cup {n},
              !.changes = [@ EXCEPT !.added = @ \cup {n}]]

\* reload_config suspended in close() of the client of n, inside loop l
Suspended(m, l, n, td) == [m EXCEPT !.rpc = l, !.closing = n, !.todo = td]

\* lines 132-139
Finished(m, cfg) ==
    [m EXCEPT !.config = cfg, !.rpc = "idle", !.closing = NoName, !.todo = {},
              !.result = "ok"]

\* The two loops of reload_config, run from record m with the names td still to
\* visit, up to the next point where the coroutine gives up control: the await
\* of aclose() at line 104, reached only for a client whose HTTP client exists.
\* A close() of a client without one returns without suspending.
RECURSIVE AddLoop(_, _, _)
AddLoop(m, td, cfg) ==
    IF td = {} THEN Finished(m, cfg)
    ELSE LET n == First(td) IN
         IF m.clients[n] = 0
         THEN AddLoop(AfterAdd(m, n, cfg), td \ {n}, cfg)
         ELSE IF m.config.workspaces[n] # Absent
                 /\ CredsDiffer(cfg.workspaces[n], m.config.workspaces[n])
         THEN IF m.objs[n].http
              THEN Suspended(m, "add", n, td \ {n})
              ELSE AddLoop(AfterUpdateClose(m, n, cfg), td \ {n}, cfg)
         ELSE AddLoop(m, td \ {n}, cfg)

RECURSIVE RemoveLoop(_, _, _)
RemoveLoop(m, td, cfg) ==
    IF td = {} THEN AddLoop(m, Configured(cfg), cfg)
    ELSE LET n == First(td) IN
         IF cfg.workspaces[n] = Absent
         THEN IF m.objs[n].http
              THEN Suspended(m, "remove", n, td \ {n})
              ELSE RemoveLoop(AfterRemoveClose(m, n), td \ {n}, cfg)
         ELSE RemoveLoop(m, td \ {n}, cfg)

Install(m) ==
    /\ config' = m.config
    /\ clients' = m.clients
    /\ objs' = m.objs
    /\ held' = m.held
    /\ rpc' = m.rpc
    /\ closing' = m.closing
    /\ todo' = m.todo
    /\ changes' = m.changes
    /\ closed_now' = m.closed_now
    /\ built_now' = m.built_now
    /\ result' = m.result

\* lines 99-108 and on: load_config succeeded; the first loop runs over a copy
\* of the keys
ReloadStart(cfg) ==
    /\ rpc = "idle"
    /\ new_config' = cfg
    /\ prev_names' = Registered
    /\ Install(RemoveLoop([Cur EXCEPT !.changes = NoChanges, !.closed_now = {},
                                      !.built_now = {}, !.result = "none"],
                           Registered, cfg))
    /\ lastCall' = <<>>
    /\ answer' = NoAnswer
    /\ UNCHANGED restWM

\* a reload_config that empties the registry before it reports the failure
ReloadFail_Unregisters ==
    /\ rpc = "idle"
    /\ result' = "error"
    /\ changes' = NoChanges
    /\ prev_names' = Registered
    /\ closed_now' = {}
    /\ built_now' = {}
    /\ lastCall' = <<>>
    /\ answer' = NoAnswer
    /\ clients' = [n \in Names |-> 0]
    /\ UNCHANGED <<config, objs, held, rpc, closing, new_config, todo>>
    /\ UNCHANGED restWM

\* lines 99-102: load_config raised; the call returns without a changes dict
ReloadFail ==
    /\ rpc = "idle"
    /\ result' = "error"
    /\ changes' = NoChanges
    /\ prev_names' = Registered
    /\ closed_now' = {}
    /\ built_now' = {}
    /\ lastCall' = <<>>
    /\ answer' = NoAnswer
    /\ UNCHANGED <<config, clients, objs, held, rpc, closing, new_config, todo>>
    /\ UNCHANGED restWM

\* aclose() has returned: line 105, then the rest of the loops
ReloadResume ==
    /\ rpc # "idle"
    /\ Install(IF rpc = "remove"
               THEN RemoveLoop(AfterRemoveClose(Cur, closing), todo, new_config)
               ELSE AddLoop(AfterUpdateClose(Cur, closing, new_config), todo,
                            new_config))
    /\ lastCall' = IF rpc' = "idle" THEN <<>> ELSE lastCall
    /\ answer' = NoAnswer
    /\ UNCHANGED <<new_config, prev_names>>
    /\ UNCHANGED restWM

\* get_client line 49: the name the call resolves; w = NoName: no workspace argument
Resolve_DefaultAlways(w) == config.default_workspace

Resolve(w) == IF w = NoName THEN config.default_workspace ELSE w

GotClient(w) == [op |-> "get_client", arg |-> w, error |-> "none", listed |-> {}]

\* the ValueError of lines 52-55 and 58-61, with the workspace_names it lists
Failed(w, e) == [op |-> "get_client", arg |-> w, error |-> e, listed |-> Registered]

\* get_client lines 37-63, called by a tool handler that keeps the client it gets
GetClient(w) ==
    /\ held = 0
    /\ IF Resolve(w) = NoName
       THEN held' = held /\ answer' = Failed(w, "no_default")
       ELSE IF clients[Resolve(w)] = 0
       THEN held' = held /\ answer' = Failed(w, "not_found")
       ELSE held' = clients[Resolve(w)] /\ answer' = GotClient(w)
    /\ UNCHANGED <<config, clients, objs, rpc, closing, new_config, todo, changes,
                   prev_names, closed_now, built_now, result, lastCall>>
    /\ UNCHANGED restWM

\* _request lines 129-134 with _ensure_client lines 89-100: the handler issues a
\* call through the client it holds; the HTTP client is built from the client's
\* own configuration when there is none
IssueCall ==
    /\ held # 0
    /\ objs' = [objs EXCEPT ![held] = [@ EXCEPT !.http = TRUE]]
    /\ lastCall' = <<objs[held].name, objs[held].creds>>
    /\ answer' = NoAnswer
    /\ UNCHANGED <<config, clients, held, rpc, closing, new_config, todo, changes,
                   prev_names, closed_now, built_now, result>>
    /\ UNCHANGED restWM

\* the tool handler returns and drops its reference
Release ==
    /\ held # 0
    /\ held' = 0
    /\ objs' = IF held = Detached THEN [objs EXCEPT ![Detached] = Free] ELSE objs
    /\ lastCall' = <<>>
    /\ answer' = NoAnswer
    /\ UNCHANGED <<config, clients, rpc, closing, new_config, todo, changes,
                   prev_names, closed_now, built_now, result>>
    /\ UNCHANGED restWM

\* SlackClient.close, slack_client.py lines 102-106
Closed_LeftOpen(o) == o

Closed(o) == [o EXCEPT !.http = FALSE]

\* close_all lines 88-91.  Its callers are __aexit__ and the cleanup of
\* run_server (server.py line 495), which runs when server.run has returned: no
\* handler is active and no reload is under way.  The answer keeps the names
\* whose client had an HTTP client to close.
CloseAll ==
    /\ rpc = "idle"
    /\ held = 0
    /\ objs' = [o \in Objects |->
                  IF \E n \in Names : clients[n] = o THEN Closed(objs[o]) ELSE objs[o]]
    /\ answer' = [op |-> "close_all", arg |-> NoName, error |-> "none",
                  listed |-> {n \in Registered : objs[clients[n]].http}]
    /\ UNCHANGED <<config, clients, held, rpc, closing, new_config, todo, changes,
                   prev_names, closed_now, built_now, result, lastCall>>
    /\ UNCHANGED restWM

NextWM ==
    \/ \E cfg \in Configs : ReloadStart(cfg)
    \/ ReloadFail
    \/ ReloadResume
    \/ \E w \in Names \cup {NoName} : GetClient(w)
    \/ IssueCall
    \/ Release
    \/ CloseAll

(***************************************************************************)
(* _get_unread_for_workspace (tools/get_unread.py 19-347), one run on one  *)
(* tenant.  A timestamp is a number: NoTs is None, Sentinel is the         *)
(* all-zero watermark "0000000000.000000"; the code compares timestamps as *)
(* strings of equal width, which orders them as the numbers do.            *)
(***************************************************************************)
NoTs == -1
Sentinel == 0
Timestamps == {1, 2}

\* line 113 / 220: oldest.startswith("0000000000")
IsSentinel(ts) == ts = Sentinel

batch_size == 15
max_channels_to_scan == 50
\* get_unread's defaults (lines 387-388)
DefaultBudget == 20
DefaultDmScan == 30
MaxMentions == 10

Convs == 1..MaxListed

\* what conversations.info can answer (get_conversation_info, slack_client.py
\* 221-251); a count of 0 stands for an absent or zero count
InfoResponses ==
    {r \in [display : {0, 2}, raw : {0, 1}, mpim : BOOLEAN, user : BOOLEAN,
            last_read : {NoTs, Sentinel, 1}] : r.mpim => ~r.user}

\* of a detail answer, what check_*_unread and the loops after it still read
\* once the count fields are tested: conv.last_read and, for a DM (lines 97 and
\* 132), conv.user
Kept(ph, r) == [last_read |-> r.last_read, user |-> ph = "dm" /\ r.user]

NoDetail == [last_read |-> NoTs, user |-> FALSE]

\* check_*_unread returned None
NoResult == -1

\* channel_read_cache has no entry
Unset == -2

\* in place of an answer: the call raised
Err == -3

\* the filter loop has visited no hit
NoHit == [ch |-> 0, ts |-> NoTs, probed |-> FALSE]

\* a DM of any kind goes on to the comparison
Fallback_AnyDM(ph, d) == d.last_read # NoTs

\* lines 64-67 / 181-184: the count fields; 0: neither is positive
CountVerdict(d) ==
    IF d.display > 0 THEN d.display
    ELSE IF d.raw > 0 THEN d.raw
    ELSE 0

\* line 70 / 187: the probe goes on to compare the watermark with the newest message
Fallback(ph, d) == (ph = "dm" => d.mpim) /\ d.last_read # NoTs

\* lines 84 / 201-202: how many listed conversations are probed
ScanLimit == IF phase = "dm" THEN max_dms_to_scan ELSE max_channels_to_scan

\* every ranked conversation gets its messages fetched
Retained_All == Len(with_unread)

\* lines 107 / 217: how many ranked conversations get their messages fetched
Retained ==
    Min(Len(with_unread),
        IF phase = "dm" THEN max_conversations_to_check ELSE remaining_budget)

\* line 125 / 231: if messages:
HasMessages_Always(n) == TRUE

HasMessages(n) == n > 0

\* conversations.history of conversation c with the lower bound oldest (NoTs:
\* none) and inclusive=false (slack_client.py 259, 275-282) has something to
\* return: the server holds a message that is newer than the bound
NewerThan(c, oldest) ==
    /\ server_newest[c] # NoTs
    /\ oldest = NoTs \/ server_newest[c] > oldest

\* the messages are not part of a run of the other specifications
InitSVVars == server_newest = [c \in Convs |-> NoTs]

\* the list is left in the order the probes were collected in
SortDesc_AsCollected(seq) == seq

\* a detail answer of a DM that reports a positive displayed unread count
DisplayedUnread ==
    [display : {1, 2}, raw : {0, 1}, mpim : {FALSE}, user : {TRUE},
     last_read : {Sentinel, 1}]

\* a detail answer of a channel with no read watermark and no unread counts
Unwatermarked ==
    [display : {0}, raw : {0}, mpim : {FALSE}, user : {FALSE}, last_read : {NoTs}]

\* list.sort(key=lambda x: x[1], reverse=True): stable, descending unread count
RECURSIVE InsertDesc(_, _)
InsertDesc(sorted, e) ==
    IF sorted = <<>> THEN <<e>>
    ELSE IF Head(sorted).unread_count >= e.unread_count
         THEN <<Head(sorted)>> \o InsertDesc(Tail(sorted), e)
         ELSE <<e>> \o sorted

RECURSIVE SortDesc(_)
SortDesc(seq) ==
    IF seq = <<>> THEN <<>>
    ELSE InsertDesc(SortDesc(SubSeq(seq, 1, Len(seq) - 1)), seq[Len(seq)])

\* the conversations of the batch that starts at index i (lines 90-91 / 207-208)
Batch(i, n) == {c \in Convs : i < c /\ c <= Min(i + batch_size, n)}

\* the results of a batch, in batch order, None left out (lines 93-98 / 210-212)
RECURSIVE Collected(_, _)
Collected(i, n) ==
    IF i >= n THEN <<>>
    ELSE (IF results[i + 1] # NoResult
          THEN <<[id |-> i + 1, last_read |-> detailed[i + 1].last_read,
                  unread_count |-> results[i + 1]]>>
          ELSE <<>>) \o Collected(i + 1, n)

\* the include_dms, include_channels and include_mentions arguments the runs
\* are started with: everything, one of the two listing phases left out, the
\* mentions alone, nothing
Includes ==
    {[dms |-> TRUE, channels |-> TRUE, mentions |-> TRUE],
     [dms |-> FALSE, channels |-> TRUE, mentions |-> TRUE],
     [dms |-> TRUE, channels |-> FALSE, mentions |-> TRUE],
     [dms |-> FALSE, channels |-> FALSE, mentions |-> TRUE],
     [dms |-> FALSE, channels |-> FALSE, mentions |-> FALSE]}

\* a run of _get_unread_for_workspace before its first statement
InitGULocals ==
    /\ gpc = "start"
    /\ phase = "dm"
    /\ to_check = 0
    /\ batch_i = 0
    /\ probe = [c \in Convs |-> "none"]
    /\ detailed = [c \in Convs |-> NoDetail]
    /\ results = [c \in Convs |-> NoResult]
    /\ with_unread = <<>>
    /\ fetched = 0
    /\ checked_count = 0
    /\ remaining_budget = 0
    /\ unread_dms = <<>>
    /\ unread_channels = <<>>
    /\ user_ids_to_prefetch = FALSE
    /\ found = 0
    /\ hits = 0
    /\ lastHit = NoHit
    /\ channel_read_cache = [c \in Convs |-> Unset]
    /\ mentions = 0
    /\ infoCalls = 0
    /\ lastHistory = <<>>

InitGUVars ==
    /\ max_conversations_to_check \in 1..MaxBudget
    /\ max_dms_to_scan \in 1..MaxScan
    /\ include \in Includes
    /\ InitGULocals

\* lines 47-53: the DM phase is entered or skipped
Enter ==
    /\ gpc = "start"
    /\ gpc' = IF include.dms THEN "list" ELSE "dms_done"
    /\ UNCHANGED <<max_conversations_to_check, max_dms_to_scan, include, phase,
                   to_check, batch_i, probe, detailed, results, with_unread, fetched,
                   checked_count, remaining_budget, unread_dms, unread_channels,
                   user_ids_to_prefetch, hits, channel_read_cache, mentions,
                   infoCalls, lastHistory>>
    /\ UNCHANGED <<found, lastHit>>
    /\ UNCHANGED restGU

\* the batch loop at index i over n conversations: the next batch's probes are
\* started, or the loop is over (lines 90-92 / 207-209)
EnterBatch(i, n) ==
    IF i < n
    THEN /\ gpc' = "probe"
         /\ batch_i' = i
         /\ probe' = [c \in Convs |-> IF c \in Batch(i, n) THEN "info" ELSE "none"]
    ELSE /\ gpc' = "rank"
         /\ batch_i' = 0
         /\ probe' = [c \in Convs |-> "none"]

\* lines 49-53, 84 / 167-171, 201-202: the listing call returned n conversations
ListConversations(n) ==
    /\ gpc = "list"
    /\ to_check' = Min(n, ScanLimit)
    /\ with_unread' = <<>>
    /\ EnterBatch(0, to_check')
    /\ detailed' = [c \in Convs |-> NoDetail]
    /\ results' = [c \in Convs |-> NoResult]
    /\ UNCHANGED <<max_conversations_to_check, max_dms_to_scan, include, phase, fetched,
                   checked_count, remaining_budget, unread_dms, unread_channels,
                   user_ids_to_prefetch, hits, channel_read_cache, mentions,
                   infoCalls, lastHistory>>
    /\ UNCHANGED <<found, lastHit>>
    /\ UNCHANGED restGU

\* an exception outside every try block leaves _get_unread_for_workspace
Raise ==
    /\ gpc' = "raised"
    /\ UNCHANGED <<max_conversations_to_check, max_dms_to_scan, include, phase,
                   to_check, batch_i, probe, detailed, results, with_unread, fetched,
                   checked_count, remaining_budget, unread_dms, unread_channels,
                   user_ids_to_prefetch, hits, channel_read_cache, mentions,
                   infoCalls, lastHistory>>
    /\ UNCHANGED <<found, lastHit>>
    /\ UNCHANGED restGU

\* lines 49 / 167: the listing call raised
ListFail ==
    /\ gpc = "list"
    /\ Raise

\* check_dm_unread lines 60-67, 70, 79-81 / check_channel_unread lines 177-184,
\* 187, 196-198: the detail call of conversation c and what follows from its answer
ProbeInfo(c, r) ==
    /\ gpc = "probe"
    /\ probe[c] = "info"
    /\ infoCalls' = infoCalls + 1
    /\ detailed' = [detailed EXCEPT ![c] =
                       IF CountVerdict(r) > 0 \/ Fallback(phase, r)
                       THEN Kept(phase, r) ELSE NoDetail]
    /\ IF CountVerdict(r) > 0
       THEN /\ results' = [results EXCEPT ![c] = CountVerdict(r)]
            /\ probe' = [probe EXCEPT ![c] = "done"]
       ELSE /\ probe' = [probe EXCEPT ![c] =
                            IF Fallback(phase, r) THEN "latest" ELSE "done"]
            /\ UNCHANGED results
    /\ UNCHANGED <<max_conversations_to_check, max_dms_to_scan, include, gpc, phase,
                   to_check, batch_i, with_unread, fetched, checked_count,
                   remaining_budget, unread_dms, unread_channels,
                   user_ids_to_prefetch, hits, channel_read_cache, mentions,
                   lastHistory>>
    /\ UNCHANGED <<found, lastHit>>
    /\ UNCHANGED restGU

\* the detail call raises and nothing catches it
ProbeInfoFail_Propagates(c) ==
    /\ gpc = "probe"
    /\ probe[c] = "info"
    /\ Raise

\* lines 61, 79-81 / 178, 196-198: the detail call of conversation c raised
ProbeInfoFail(c) ==
    /\ gpc = "probe"
    /\ probe[c] = "info"
    /\ infoCalls' = infoCalls + 1
    /\ probe' = [probe EXCEPT ![c] = "failed"]
    /\ UNCHANGED <<max_conversations_to_check, max_dms_to_scan, include, gpc, phase,
                   to_check, batch_i, detailed, results, with_unread, fetched,
                   checked_count, remaining_budget, unread_dms, unread_channels,
                   user_ids_to_prefetch, hits, channel_read_cache, mentions,
                   lastHistory>>
    /\ UNCHANGED <<found, lastHit>>
    /\ UNCHANGED restGU

\* lines 72-73 / 188-189: the history call for the newest message; newest is
\* its timestamp, NoTs when the conversation has no message
ProbeLatest(c, newest) ==
    /\ gpc = "probe"
    /\ probe[c] = "latest"
    /\ lastHistory' = <<"latest", NoTs>>
    /\ probe' = [probe EXCEPT ![c] =
                    IF newest = Err THEN "failed"
                    ELSE IF newest # NoTs /\ newest > detailed[c].last_read
                    THEN "count" ELSE "done"]
    /\ detailed' = [detailed EXCEPT ![c] = IF probe'[c] = "count" THEN @ ELSE NoDetail]
    /\ UNCHANGED <<max_conversations_to_check, max_dms_to_scan, include, gpc, phase,
                   to_check, batch_i, results, with_unread, fetched,
                   checked_count, remaining_budget, unread_dms, unread_channels,
                   user_ids_to_prefetch, hits, channel_read_cache, mentions,
                   infoCalls>>
    /\ UNCHANGED <<found, lastHit>>
    /\ UNCHANGED restGU

\* lines 75-78 / 191-195: the history call that counts the messages after the
\* watermark; n messages came back
ProbeCount(c, n) ==
    /\ gpc = "probe"
    /\ probe[c] = "count"
    /\ lastHistory' = <<"count", detailed[c].last_read>>
    /\ probe' = [probe EXCEPT ![c] = IF n = Err THEN "failed" ELSE "done"]
    /\ results' = [results EXCEPT ![c] =
                      IF n = Err THEN NoResult
                      ELSE IF phase = "channel" /\ n = 0 THEN NoResult
                      ELSE n]
    /\ detailed' = [detailed EXCEPT ![c] =
                       IF results'[c] = NoResult THEN NoDetail ELSE @]
    /\ UNCHANGED <<max_conversations_to_check, max_dms_to_scan, include, gpc, phase,
                   to_check, batch_i, with_unread, fetched, checked_count,
                   remaining_budget, unread_dms, unread_channels,
                   user_ids_to_prefetch, hits, channel_read_cache, mentions,
                   infoCalls>>
    /\ UNCHANGED <<found, lastHit>>
    /\ UNCHANGED restGU

\* lines 92-98 / 209-212: gather has every result of the batch
BatchDone ==
    /\ gpc = "probe"
    /\ \A c \in Convs : probe[c] \in {"none", "done", "failed"}
    /\ LET last == Min(batch_i + batch_size, to_check) IN
        /\ with_unread' = with_unread \o Collected(batch_i, last)
        /\ user_ids_to_prefetch' =
              (\/ user_ids_to_prefetch
               \/ /\ phase = "dm"
                  /\ \E c \in Batch(batch_i, to_check) :
                        results[c] # NoResult /\ detailed[c].user)
    /\ EnterBatch(batch_i + batch_size, to_check)
    /\ detailed' = [c \in Convs |-> NoDetail]
    /\ results' = [c \in Convs |-> NoResult]
    /\ lastHistory' = <<>>
    /\ UNCHANGED <<max_conversations_to_check, max_dms_to_scan, include, phase,
                   to_check, fetched, checked_count, remaining_budget, unread_dms,
                   unread_channels, hits, channel_read_cache, mentions, infoCalls>>
    /\ UNCHANGED <<found, lastHit>>
    /\ UNCHANGED restGU

\* lines 101-104 / 215: the unread conversations are ranked
Rank ==
    /\ gpc = "rank"
    /\ with_unread' = SortDesc(with_unread)
    /\ fetched' = 0
    /\ gpc' = IF phase = "dm" /\ user_ids_to_prefetch THEN "prefetch" ELSE "fetch"
    /\ UNCHANGED <<max_conversations_to_check, max_dms_to_scan, include, phase,
                   to_check, batch_i, probe, detailed, results, checked_count,
                   remaining_budget, unread_dms, unread_channels,
                   user_ids_to_prefetch, hits, channel_read_cache, mentions,
                   infoCalls, lastHistory>>
    /\ UNCHANGED <<found, lastHit>>
    /\ UNCHANGED restGU

\* line 105: prefetch_users returned
PrefetchDMs ==
    /\ gpc = "prefetch"
    /\ gpc' = "fetch"
    /\ UNCHANGED <<max_conversations_to_check, max_dms_to_scan, include, phase,
                   to_check, batch_i, probe, detailed, results, with_unread, fetched,
                   checked_count, remaining_budget, unread_dms, unread_channels,
                   user_ids_to_prefetch, hits, channel_read_cache, mentions,
                   infoCalls, lastHistory>>
    /\ UNCHANGED <<found, lastHit>>
    /\ UNCHANGED restGU

\* line 105: prefetch_users raised
PrefetchDMsFail ==
    /\ gpc = "prefetch"
    /\ Raise

\* lines 107-160 / 217-253: one iteration of the message-fetch loop; n messages
\* came back, hasUser: one of them has an author
FinalFetch(n, hasUser) ==
    /\ gpc = "fetch"
    /\ fetched < Retained
    /\ LET conv == with_unread[fetched + 1]
           oldest == IF conv.last_read # NoTs /\ IsSentinel(conv.last_read)
                     THEN NoTs ELSE conv.last_read
           messages == IF n = Err THEN 0 ELSE n
           \* of the entry of lines 155-160 / 248-253, the field computed here
           entry == [unread_count |-> conv.unread_count]
       IN
        /\ lastHistory' = <<"final", oldest>>
        /\ checked_count' = IF phase = "dm" THEN checked_count + 1 ELSE checked_count
        /\ unread_dms' = IF phase = "dm" /\ HasMessages(messages)
                         THEN Append(unread_dms, entry) ELSE unread_dms
        /\ unread_channels' = IF phase = "channel" /\ HasMessages(messages)
                              THEN Append(unread_channels, entry) ELSE unread_channels
        /\ user_ids_to_prefetch' =
              (user_ids_to_prefetch \/ (HasMessages(messages) /\ hasUser))
    /\ fetched' = fetched + 1
    /\ UNCHANGED <<max_conversations_to_check, max_dms_to_scan, include, gpc, phase,
                   to_check, batch_i, probe, detailed, results, with_unread,
                   remaining_budget, hits, channel_read_cache, mentions, infoCalls>>
    /\ UNCHANGED <<found, lastHit>>
    /\ UNCHANGED restGU

\* the message-fetch loop of a phase is over, and with it the phase and its locals
FetchDone ==
    /\ gpc = "fetch"
    /\ fetched = Retained
    /\ gpc' = IF phase = "dm" THEN "dms_done" ELSE "prefetch_all"
    /\ with_unread' = <<>>
    /\ fetched' = 0
    /\ to_check' = 0
    /\ lastHistory' = <<>>
    /\ infoCalls' = 0
    /\ UNCHANGED <<max_conversations_to_check, max_dms_to_scan, include, phase,
                   batch_i, probe, detailed, results, checked_count,
                   remaining_budget, unread_dms, unread_channels,
                   user_ids_to_prefetch, hits, channel_read_cache, mentions>>
    /\ UNCHANGED <<found, lastHit>>
    /\ UNCHANGED restGU

\* lines 164-165: the channel phase is entered or skipped
ChannelsEntry ==
    /\ gpc = "dms_done"
    /\ remaining_budget' = max_conversations_to_check - checked_count
    /\ IF include.channels /\ remaining_budget' > 0
       THEN gpc' = "list" /\ phase' = "channel"
       ELSE gpc' = "prefetch_all" /\ UNCHANGED phase
    /\ UNCHANGED <<max_conversations_to_check, max_dms_to_scan, include, to_check,
                   batch_i, probe, detailed, results, with_unread, fetched, checked_count,
                   unread_dms, unread_channels, user_ids_to_prefetch, hits,
                   channel_read_cache, mentions, infoCalls, lastHistory>>
    /\ UNCHANGED <<found, lastHit>>
    /\ UNCHANGED restGU

\* lines 257-261: the second prefetch returned (or there was nothing to fetch)
PrefetchAll ==
    /\ gpc = "prefetch_all"
    /\ gpc' = IF include.mentions THEN "mentions" ELSE "summary"
    /\ UNCHANGED <<max_conversations_to_check, max_dms_to_scan, include, phase,
                   to_check, batch_i, probe, detailed, results, with_unread, fetched,
                   checked_count, remaining_budget, unread_dms, unread_channels,
                   user_ids_to_prefetch, hits, channel_read_cache, mentions,
                   infoCalls, lastHistory>>
    /\ UNCHANGED <<found, lastHit>>
    /\ UNCHANGED restGU

\* line 258: prefetch_users raised
PrefetchAllFail ==
    /\ gpc = "prefetch_all"
    /\ user_ids_to_prefetch
    /\ Raise

\* lines 262-283: the identity call, the search and the author prefetch; n hits
\* came back, Err: one of the calls raised
MentionSearch(n) ==
    /\ gpc = "mentions"
    /\ IF n = Err
       THEN gpc' = "mentions_except" /\ UNCHANGED <<found, hits>>
       ELSE gpc' = "filter" /\ found' = n /\ hits' = n
    /\ channel_read_cache' = [c \in Convs |-> Unset]
    /\ UNCHANGED <<max_conversations_to_check, max_dms_to_scan, include, phase,
                   to_check, batch_i, probe, detailed, results, with_unread, fetched,
                   checked_count, remaining_budget, unread_dms, unread_channels,
                   user_ids_to_prefetch, lastHit, mentions, infoCalls, lastHistory>>
    /\ UNCHANGED restGU

\* the exception leaves the try block uncaught
MentionsExcept_Reraises ==
    /\ gpc = "mentions_except"
    /\ Raise

\* lines 310-311: the except clause of the mention block
MentionsExcept ==
    /\ gpc = "mentions_except"
    /\ gpc' = "summary"
    /\ UNCHANGED <<max_conversations_to_check, max_dms_to_scan, include, phase,
                   to_check, batch_i, probe, detailed, results, with_unread, fetched,
                   checked_count, remaining_budget, unread_dms, unread_channels,
                   user_ids_to_prefetch, hits, channel_read_cache, mentions,
                   infoCalls, lastHistory>>
    /\ UNCHANGED <<found, lastHit>>
    /\ UNCHANGED restGU

\* line 297 with a watermark that is as old as the message
IsUnread_AtWatermark(ts, last_read) == last_read # NoTs /\ ts >= last_read

\* line 297: last_read and msg.ts > last_read
IsUnread(ts, last_read) == last_read # NoTs /\ ts > last_read

\* the filter loop with an except clause that stores nothing
MentionHit_FailureUncached(ch, ts, r) ==
    /\ gpc = "filter"
    /\ hits > 0
    /\ mentions < MaxMentions
    /\ channel_read_cache[ch] # Unset => r = Err
    /\ LET cached == IF channel_read_cache[ch] # Unset THEN channel_read_cache[ch]
                     ELSE IF r = Err THEN NoTs ELSE r
       IN
        /\ channel_read_cache' =
               IF channel_read_cache[ch] = Unset /\ r = Err THEN channel_read_cache
               ELSE [channel_read_cache EXCEPT ![ch] = cached]
        /\ mentions' = IF IsUnread(ts, cached) THEN mentions + 1 ELSE mentions
    /\ hits' = hits - 1
    /\ lastHit' = [ch |-> ch, ts |-> ts, probed |-> channel_read_cache[ch] = Unset]
    /\ UNCHANGED <<max_conversations_to_check, max_dms_to_scan, include, gpc, phase,
                   to_check, batch_i, probe, detailed, results, with_unread, fetched,
                   checked_count, remaining_budget, unread_dms, unread_channels,
                   user_ids_to_prefetch, found, infoCalls, lastHistory>>
    /\ UNCHANGED restGU

\* lines 285-309: one iteration of the filter loop, for a hit in conversation ch
\* with timestamp ts; r is what get_conversation_info answers if it is asked
\* (line 286 asks only for a conversation that has no entry in the cache, and
\* lines 289 and 291 store the answer, or None for a failure)
MentionHit(ch, ts, r) ==
    /\ gpc = "filter"
    /\ hits > 0
    /\ mentions < MaxMentions
    /\ channel_read_cache[ch] # Unset => r = Err
    /\ LET cached == IF channel_read_cache[ch] # Unset THEN channel_read_cache[ch]
                     ELSE IF r = Err THEN NoTs ELSE r
       IN
        /\ channel_read_cache' = [channel_read_cache EXCEPT ![ch] = cached]
        /\ mentions' = IF IsUnread(ts, cached) THEN mentions + 1 ELSE mentions
    /\ hits' = hits - 1
    /\ lastHit' = [ch |-> ch, ts |-> ts, probed |-> channel_read_cache[ch] = Unset]
    /\ UNCHANGED <<max_conversations_to_check, max_dms_to_scan, include, gpc, phase,
                   to_check, batch_i, probe, detailed, results, with_unread, fetched,
                   checked_count, remaining_budget, unread_dms, unread_channels,
                   user_ids_to_prefetch, found, infoCalls, lastHistory>>
    /\ UNCHANGED restGU

\* the filter loop is over: no hit is left or 10 mentions are collected
FilterDone ==
    /\ gpc = "filter"
    /\ hits = 0 \/ mentions >= MaxMentions
    /\ gpc' = "summary"
    /\ found' = 0
    /\ hits' = 0
    /\ lastHit' = NoHit
    /\ channel_read_cache' = [c \in Convs |-> Unset]
    /\ UNCHANGED <<max_conversations_to_check, max_dms_to_scan, include, phase,
                   to_check, batch_i, probe, detailed, results, with_unread, fetched,
                   checked_count, remaining_budget, unread_dms, unread_channels,
                   user_ids_to_prefetch, mentions, infoCalls, lastHistory>>
    /\ UNCHANGED restGU

\* lines 313-347: the result is built and returned
Summary ==
    /\ gpc = "summary"
    /\ gpc' = "done"
    /\ UNCHANGED <<max_conversations_to_check, max_dms_to_scan, include, phase,
                   to_check, batch_i, probe, detailed, results, with_unread, fetched,
                   checked_count, remaining_budget, unread_dms, unread_channels,
                   user_ids_to_prefetch, hits, channel_read_cache, mentions,
                   infoCalls, lastHistory>>
    /\ UNCHANGED <<found, lastHit>>
    /\ UNCHANGED restGU

NextGU ==
    \/ Enter
    \/ \E n \in 0..MaxListed : ListConversations(n)
    \/ ListFail
    \/ \E c \in Convs, r \in InfoResponses : ProbeInfo(c, r)
    \/ \E c \in Convs : ProbeInfoFail(c)
    \/ \E c \in Convs, newest \in Timestamps \cup {NoTs, Err} : ProbeLatest(c, newest)
    \/ \E c \in Convs, n \in (0..MaxMessages) \cup {Err} : ProbeCount(c, n)
    \/ BatchDone
    \/ Rank
    \/ PrefetchDMs
    \/ PrefetchDMsFail
    \/ \E n \in (0..MaxMessages) \cup {Err}, hasUser \in BOOLEAN : FinalFetch(n, hasUser)
    \/ FetchDone
    \/ ChannelsEntry
    \/ PrefetchAll
    \/ PrefetchAllFail
    \/ \E n \in (0..MaxHits) \cup {Err} : MentionSearch(n)
    \/ MentionsExcept
    \/ \E ch \in Convs, ts \in Timestamps, r \in {NoTs, Sentinel, 1, Err} :
          MentionHit(ch, ts, r)
    \/ FilterDone
    \/ Summary

(***************************************************************************)
(* get_unread (tools/get_unread.py 381-461) and _combine_workspace_results *)
(* (350-378).  A run of _get_unread_for_workspace is one step here: it     *)
(* raises or it returns its totals.                                        *)
(***************************************************************************)
\* the totals a run of _get_unread_for_workspace can return (lines 341-345)
Totals == [unread_dm_messages : 0..1, channels_with_unread : 0..1, mentions : 0..1]

\* lines 420-424 / 449-453
ZeroTotals == [unread_dm_messages |-> 0, channels_with_unread |-> 0, mentions |-> 0]

\* the lists of names of length n or less
RECURSIVE Orders(_)
Orders(n) ==
    IF n = 0 THEN {<<>>}
    ELSE Orders(n - 1) \cup {Append(o, w) : o \in Orders(n - 1), w \in Names}

NoRepeat(o) == \A i, j \in DOMAIN o : i # j => o[i] # o[j]

\* line 445-454: the entry of a tenant whose reconciliation raised
ErrorEntry(w) == [workspace |-> w, error |-> TRUE, totals |-> ZeroTotals]

\* lines 329-347: what _get_unread_for_workspace returns
OkEntry(w, t) == [workspace |-> w, error |-> FALSE, totals |-> t]

NoReturn == [kind |-> "none", workspaces |-> <<>>, totals |-> ZeroTotals, active |-> 0]

\* lines 417-425
NeedsAuth == [kind |-> "needs_auth", workspaces |-> <<>>, totals |-> ZeroTotals,
              active |-> 0]

RECURSIVE SumOf(_, _)
\* sum(r.get("totals", {}).get(key, 0) for r in results), lines 353-355
SumOf(rs, key) ==
    IF rs = <<>> THEN 0 ELSE rs[1].totals[key] + SumOf(Tail(rs), key)

\* lines 359-363: the tenants with unread DMs or channels
WithUnreads(rs) ==
    Cardinality({i \in DOMAIN rs : \/ rs[i].totals.unread_dm_messages > 0
                                   \/ rs[i].totals.channels_with_unread > 0})

\* _combine_workspace_results, lines 350-378
Combined(rs) ==
    [kind |-> "combined",
     workspaces |-> rs,
     totals |-> [unread_dm_messages |-> SumOf(rs, "unread_dm_messages"),
                 channels_with_unread |-> SumOf(rs, "channels_with_unread"),
                 mentions |-> SumOf(rs, "mentions")],
     active |-> WithUnreads(rs)]

\* line 458: the only result is returned as it is
Single(rs) == [kind |-> "single", workspaces |-> rs, totals |-> rs[1].totals,
               active |-> 0]

InitMTVars ==
    /\ workspace_names \in {o \in Orders(NumNames) : NoRepeat(o)}
    /\ mpc = "start"
    /\ workspaces_to_check = <<>>
    /\ all_results = <<>>
    /\ raised_at = {}
    /\ returned = NoReturn

\* lines 410-428; w = NoName: no workspace argument
GetUnread(w) ==
    /\ mpc = "start"
    /\ workspaces_to_check' = IF w # NoName THEN <<w>> ELSE workspace_names
    /\ IF workspaces_to_check' = <<>>
       THEN mpc' = "done" /\ returned' = NeedsAuth
       ELSE mpc' = "loop" /\ UNCHANGED returned
    /\ UNCHANGED <<workspace_names, all_results, raised_at>>
    /\ UNCHANGED restMT

\* the exception of _get_unread_for_workspace leaves get_unread
Visit_Aborts(fails, t) ==
    LET at == Len(all_results) + 1
        ws_name == workspaces_to_check[at]
        raises == fails \/ \A i \in DOMAIN workspace_names : workspace_names[i] # ws_name
    IN
    /\ mpc = "loop"
    /\ at <= Len(workspaces_to_check)
    /\ IF raises
       THEN /\ mpc' = "done"
            /\ raised_at' = raised_at \cup {at}
            /\ UNCHANGED all_results
       ELSE /\ all_results' = Append(all_results, OkEntry(ws_name, t))
            /\ UNCHANGED <<mpc, raised_at>>
    /\ UNCHANGED <<workspace_names, workspaces_to_check, returned>>
    /\ UNCHANGED restMT

\* lines 430-454: one iteration of the loop.  The run of
\* _get_unread_for_workspace raises at line 33 when the name is not registered;
\* when it gets its client it raises (fails) or returns the totals t.
Visit(fails, t) ==
    LET at == Len(all_results) + 1
        ws_name == workspaces_to_check[at]
        raises == fails \/ \A i \in DOMAIN workspace_names : workspace_names[i] # ws_name
    IN
    /\ mpc = "loop"
    /\ at <= Len(workspaces_to_check)
    /\ all_results' = Append(all_results,
                             IF raises THEN ErrorEntry(ws_name) ELSE OkEntry(ws_name, t))
    /\ raised_at' = IF raises THEN raised_at \cup {at} ELSE raised_at
    /\ UNCHANGED <<workspace_names, mpc, workspaces_to_check, returned>>
    /\ UNCHANGED restMT

\* lines 456-461
Return ==
    /\ mpc = "loop"
    /\ Len(all_results) = Len(workspaces_to_check)
    /\ mpc' = "done"
    /\ returned' = IF Len(all_results) = 1 THEN Single(all_results)
                   ELSE Combined(all_results)
    /\ UNCHANGED <<workspace_names, workspaces_to_check, all_results, raised_at>>
    /\ UNCHANGED restMT

\* a reload_config that runs while get_unread awaits a tenant's reconciliation
\* deletes the client of name w (workspace.py line 114)
Unregister(w) ==
    /\ mpc = "loop"
    /\ \E i \in DOMAIN workspace_names : workspace_names[i] = w
    /\ workspace_names' = SelectSeq(workspace_names, LAMBDA x : x # w)
    /\ UNCHANGED <<mpc, workspaces_to_check, all_results, raised_at, returned>>
    /\ UNCHANGED restMT

NextMT ==
    \/ \E w \in Names \cup {NoName} : GetUnread(w)
    \/ \E fails \in BOOLEAN, t \in Totals : Visit(fails, t)
    \/ Return
    \/ \E w \in Names : Unregister(w)

(***************************************************************************)
(* The user cache of a SlackClient: get_user_info (slack_client.py         *)
(* 446-472) and prefetch_users.  The calls are sequential: one is over     *)
(* before the next starts.  A profile is the number of the answer the      *)
(* remote gave; the remote may answer differently each time it is asked.   *)
(***************************************************************************)
UserIds == 1..NumUsers

Profiles == 1..NumProfiles

\* user_id not in self._users_cache
NoProfile == 0

\* cursor = None, or a next_cursor that is absent or empty
NoCursor == 0

Cursors == 1..NumCursors

\* the "channels" a page of conversations.list can carry, as conversation ids
PageItems == {<<>>} \cup {<<c>> : c \in Convs}

\* no call on the watermark cache yet
NoOp == [op |-> "none", channel |-> 0, ts |-> NoTs, ok |-> FALSE, returned |-> NoTs]

NoPage == [items |-> <<>>, next |-> NoCursor, last_read |-> NoTs]

NoCall == [op |-> "none", ids |-> {}, requested |-> {}, added |-> {},
           returned |-> NoProfile, raised |-> FALSE, before |-> {}]

\* line 75
InitUCVars ==
    /\ users_cache = [u \in UserIds |-> NoProfile]
    /\ upc = "idle"
    /\ ucall = NoCall
    /\ info_ok = [u \in UserIds |-> 0]
    /\ http = FALSE
    /\ conversations_cache = {}
    /\ last_read_cache = [c \in Convs |-> NoTs]
    /\ wop = NoOp
    /\ lpc = "idle"
    /\ cursor = NoCursor
    /\ conversations = <<>>
    /\ last_page = NoPage
    /\ last_sent = NoCursor
    /\ requests = 0

\* the cache is not looked up
Hit_Never(user_id) == FALSE

\* line 457
Hit(user_id) == users_cache[user_id] # NoProfile

\* lines 446-460: the lookup, and the users.info request when it misses
GetUserInfo(user_id) ==
    /\ upc = "idle"
    /\ IF Hit(user_id)
       THEN /\ upc' = "idle"
            /\ ucall' = [op |-> "get_user_info", ids |-> {user_id}, requested |-> {},
                         added |-> {}, returned |-> users_cache[user_id],
                         raised |-> FALSE, before |-> {}]
            /\ UNCHANGED http
       ELSE /\ upc' = "info"
            /\ ucall' = [op |-> "get_user_info", ids |-> {user_id},
                         requested |-> {user_id}, added |-> {},
                         returned |-> NoProfile, raised |-> FALSE, before |-> {}]
            /\ http' = TRUE
    /\ UNCHANGED <<users_cache, info_ok>>
    /\ UNCHANGED walkVars
    /\ UNCHANGED restUC

\* lines 460-472: users.info answered with profile p, or _request raised (Err)
UsersInfo(p) ==
    /\ upc = "info"
    /\ upc' = "idle"
    /\ LET user_id == CHOOSE u \in ucall.ids : TRUE IN
       IF p = Err
       THEN /\ ucall' = [ucall EXCEPT !.raised = TRUE]
            /\ UNCHANGED <<users_cache, info_ok>>
       ELSE /\ info_ok[user_id] < MaxFetches
            /\ info_ok' = [info_ok EXCEPT ![user_id] = @ + 1]
            /\ users_cache' = [users_cache EXCEPT ![user_id] = p]
            /\ ucall' = [ucall EXCEPT !.returned = p, !.added = {user_id}]
    /\ UNCHANGED <<http, walkVars>>
    /\ UNCHANGED restUC

\* every identifier is fetched, cached or not
Uncached_All(ids) == ids

\* prefetch_users: the identifiers not already cached
Uncached(ids) == {u \in ids : users_cache[u] = NoProfile}

\* prefetch_users(ids): one batched fetch for the identifiers not already
\* cached; profile[u] is the profile the remote gives for u, ok: the fetch succeeded
PrefetchUsers(ids, ok, profile) ==
    /\ upc = "idle"
    /\ LET wanted == Uncached(ids)
           done == wanted # {} /\ ok
       IN
       /\ users_cache' = [u \in UserIds |->
                             IF done /\ u \in wanted THEN profile[u] ELSE users_cache[u]]
       /\ ucall' = [op |-> "prefetch_users", ids |-> ids, requested |-> wanted,
                    added |-> IF done THEN wanted ELSE {},
                    returned |-> NoProfile, raised |-> wanted # {} /\ ~ok,
                    before |-> IF ucall.op = "prefetch_users" THEN ucall.added ELSE {}]
       /\ http' = (http \/ wanted # {})
    /\ UNCHANGED <<upc, info_ok>>
    /\ UNCHANGED walkVars
    /\ UNCHANGED restUC

NextUC ==
    \/ \E user_id \in UserIds : GetUserInfo(user_id)
    \/ \E p \in Profiles \cup {Err} : UsersInfo(p)
    \/ \E ids \in SUBSET UserIds, ok \in BOOLEAN :
          \E fetched_now \in [Uncached(ids) -> Profiles] :
              PrefetchUsers(ids, ok, [u \in UserIds |->
                                         IF u \in Uncached(ids) THEN fetched_now[u]
                                         ELSE NoProfile])

(***************************************************************************)
(* SlackClient.list_conversations (slack_client.py 163-219) and close      *)
(* (102-106).  _last_read_cache and _cache_time are not modelled.  The     *)
(* list and the request count are kept up to MaxWalk and MaxWalk + 1: the  *)
(* loop itself goes on beyond them.                                        *)
(***************************************************************************)
\* the page count the callers ask for (get_unread.py lines 52 and 170)
max_pages == 2

\* the cache holds the conversations of the latest page only
Cached_Latest(cache, items) == {items[i] : i \in DOMAIN items}

\* line 210: self._conversations_cache[conv.id] = conv
Cached(cache, items) == cache \cup {items[i] : i \in DOMAIN items}

\* lines 179-180
ListStart ==
    /\ lpc = "idle"
    /\ lpc' = "page"
    /\ conversations' = <<>>
    /\ cursor' = NoCursor
    /\ requests' = 0
    /\ last_page' = NoPage
    /\ last_sent' = NoCursor
    /\ UNCHANGED <<conversations_cache, last_read_cache, wop, http, userVars>>
    /\ UNCHANGED restUC

\* the failed request empties the caches
ListPageFail_Clears ==
    /\ lpc = "page"
    /\ http' = TRUE
    /\ last_sent' = cursor
    /\ requests' = Min(requests + 1, MaxWalk + 1)
    /\ lpc' = "raised"
    /\ conversations_cache' = {}
    /\ last_read_cache' = [c \in Convs |-> NoTs]
    /\ UNCHANGED <<wop, cursor, conversations, last_page, userVars>>
    /\ UNCHANGED restUC

\* lines 211-212: the watermark of each listed conversation that has one
Watermarked(cache, items, lr) ==
    [c \in Convs |-> IF lr # NoTs /\ \E i \in DOMAIN items : items[i] = c
                     THEN lr ELSE cache[c]]

\* lines 182-216: one iteration of the loop; conversations.list answered with
\* items, whose last_read is lr (NoTs: none), and the continuation cursor next
ListPage(items, next, lr) ==
    /\ lpc = "page"
    /\ http' = TRUE
    /\ last_sent' = cursor
    /\ requests' = Min(requests + 1, MaxWalk + 1)
    /\ last_page' = [items |-> items, next |-> next, last_read |-> lr]
    /\ conversations' = IF Len(conversations) + Len(items) <= MaxWalk
                        THEN conversations \o items ELSE conversations
    /\ conversations_cache' = Cached(conversations_cache, items)
    /\ last_read_cache' = Watermarked(last_read_cache, items, lr)
    /\ cursor' = next
    /\ lpc' = IF next = NoCursor THEN "done" ELSE "page"
    /\ UNCHANGED <<wop, userVars>>
    /\ UNCHANGED restUC

\* line 191: _request raised
ListPageFail ==
    /\ lpc = "page"
    /\ http' = TRUE
    /\ last_sent' = cursor
    /\ requests' = Min(requests + 1, MaxWalk + 1)
    /\ lpc' = "raised"
    /\ UNCHANGED <<conversations_cache, last_read_cache, wop, cursor, conversations,
                   last_page, userVars>>
    /\ UNCHANGED restUC

\* lines 218-219: the caller has the list, or the exception; the locals are gone
ListReturn ==
    /\ lpc \in {"done", "raised"}
    /\ lpc' = "idle"
    /\ conversations' = <<>>
    /\ cursor' = NoCursor
    /\ requests' = 0
    /\ last_page' = NoPage
    /\ last_sent' = NoCursor
    /\ UNCHANGED <<conversations_cache, last_read_cache, wop, http, userVars>>
    /\ UNCHANGED restUC

\* lines 102-106
Close ==
    /\ http' = FALSE
    /\ UNCHANGED <<userVars, walkVars>>
    /\ UNCHANGED restUC

\* the cache is written before the request is answered
MarkConversation_WritesFirst(c, ts, ok) ==
    /\ lpc = "idle"
    /\ http' = TRUE
    /\ last_read_cache' = [last_read_cache EXCEPT ![c] = ts]
    /\ wop' = [op |-> "mark_conversation", channel |-> c, ts |-> ts, ok |-> ok,
               returned |-> NoTs]
    /\ UNCHANGED <<conversations_cache, lpc, cursor, conversations, last_page,
                   last_sent, requests, userVars>>
    /\ UNCHANGED restUC

\* mark_conversation(channel, ts), lines 341-355; ok: the conversations.mark
\* request succeeded (otherwise _request raised at line 350)
MarkConversation(c, ts, ok) ==
    /\ lpc = "idle"
    /\ http' = TRUE
    /\ last_read_cache' = IF ok THEN [last_read_cache EXCEPT ![c] = ts]
                          ELSE last_read_cache
    /\ wop' = [op |-> "mark_conversation", channel |-> c, ts |-> ts, ok |-> ok,
               returned |-> NoTs]
    /\ UNCHANGED <<conversations_cache, lpc, cursor, conversations, last_page,
                   last_sent, requests, userVars>>
    /\ UNCHANGED restUC

\* get_last_read(channel), lines 518-520
GetLastRead(c) ==
    /\ lpc = "idle"
    /\ wop' = [op |-> "get_last_read", channel |-> c, ts |-> NoTs, ok |-> TRUE,
               returned |-> last_read_cache[c]]
    /\ UNCHANGED <<conversations_cache, last_read_cache, lpc, cursor, conversations,
                   last_page, last_sent, requests, http, userVars>>
    /\ UNCHANGED restUC

\* set_last_read(channel, ts), lines 522-524
SetLastRead(c, ts) ==
    /\ lpc = "idle"
    /\ last_read_cache' = [last_read_cache EXCEPT ![c] = ts]
    /\ wop' = [op |-> "set_last_read", channel |-> c, ts |-> ts, ok |-> TRUE,
               returned |-> NoTs]
    /\ UNCHANGED <<conversations_cache, lpc, cursor, conversations, last_page,
                   last_sent, requests, http, userVars>>
    /\ UNCHANGED restUC

\* the watermark of a listed conversation in a walk: none, or the one value
ListedWatermarks == {NoTs, 1}

NextLW ==
    \/ ListStart
    \/ \E items \in PageItems, next \in Cursors \cup {NoCursor},
          lr \in ListedWatermarks : ListPage(items, next, lr)
    \/ ListPageFail
    \/ ListReturn

\* one operation at a time; the user operations follow the listing calls, and
\* the listed conversations carry no watermark
NextCL ==
    \/ ucall = NoCall /\ upc = "idle" /\ ListStart
    \/ \E items \in PageItems, next \in Cursors \cup {NoCursor} :
          ucall = NoCall /\ upc = "idle" /\ ListPage(items, next, NoTs)
    \/ ucall = NoCall /\ upc = "idle" /\ ListPageFail
    \/ ucall = NoCall /\ upc = "idle" /\ ListReturn
    \/ lpc = "idle" /\ NextUC
    \/ lpc = "idle" /\ upc = "idle" /\ Close

\* the calls on the watermark cache, one at a time, between listing walks of
\* a single page
NextRW ==
    \/ \E c \in Convs, ts \in Timestamps, ok \in BOOLEAN : MarkConversation(c, ts, ok)
    \/ \E c \in Convs : GetLastRead(c)
    \/ \E c \in Convs, ts \in Timestamps : SetLastRead(c, ts)
    \/ ListStart
    \/ \E items \in PageItems, lr \in Timestamps \cup {NoTs} :
          ListPage(items, NoCursor, lr)
    \/ ListReturn

(***************************************************************************)
(* The tools of server.py (call_tool, lines 371-463) and the requests they *)
(* issue through the client of one tenant.  A tool is the set of client    *)
(* methods its code calls, in any order and any number of times.           *)
(***************************************************************************)
ToolNames == {"get_unread", "get_context", "search", "reply", "react",
              "list_conversations", "mark_read"}

\* get_unread also marks what it has listed as read
Calls_GetUnreadMarks(t) ==
    CASE t = "get_unread" ->
             {"list_conversations", "get_conversation_info",
              "get_conversation_history", "prefetch_users", "test_auth",
              "search_messages", "mark_conversation"}
      [] t = "get_context" ->
             {"get_thread_replies", "get_conversation_history", "resolve_user_name",
              "get_conversation_info"}
      [] t = "search" -> {"search_messages", "resolve_user_name"}
      [] t = "reply" ->
             {"open_conversation", "post_message", "get_conversation_info",
              "get_user_info"}
      [] t = "react" ->
             {"remove_reaction", "add_reaction", "get_conversation_info",
              "get_user_info"}
      [] t = "list_conversations" -> {"list_conversations"}
      [] t = "mark_read" ->
             {"get_conversation_history", "mark_conversation", "get_conversation_info",
              "get_user_info"}

\* the client methods the code of each tool calls
Calls(t) ==
    CASE t = "get_unread" ->
             {"list_conversations", "get_conversation_info",
              "get_conversation_history", "prefetch_users", "test_auth",
              "search_messages"}
      [] t = "get_context" ->
             {"get_thread_replies", "get_conversation_history", "resolve_user_name",
              "get_conversation_info"}
      [] t = "search" -> {"search_messages", "resolve_user_name"}
      [] t = "reply" ->
             {"open_conversation", "post_message", "get_conversation_info",
              "get_user_info"}
      [] t = "react" ->
             {"remove_reaction", "add_reaction", "get_conversation_info",
              "get_user_info"}
      [] t = "list_conversations" -> {"list_conversations"}
      [] t = "mark_read" ->
             {"get_conversation_history", "mark_conversation", "get_conversation_info",
              "get_user_info"}

\* the methods of the client whose code is not in slack_client.py: the endpoint
\* each one requests
EndpointOfMissing(m) ==
    CASE m = "prefetch_users" -> "users.info"
      [] m = "add_reaction" -> "reactions.add"
      [] m = "remove_reaction" -> "reactions.remove"

\* the endpoint each method of SlackClient requests
Endpoint(m) ==
    CASE m = "list_conversations" -> "conversations.list"
      [] m = "get_conversation_info" -> "conversations.info"
      [] m = "get_conversation_history" -> "conversations.history"
      [] m = "get_thread_replies" -> "conversations.replies"
      [] m = "open_conversation" -> "conversations.open"
      [] m = "mark_conversation" -> "conversations.mark"
      [] m = "post_message" -> "chat.postMessage"
      [] m = "search_messages" -> "search.messages"
      [] m = "get_user_info" -> "users.info"
      [] m = "resolve_user_name" -> "users.info"
      [] m = "test_auth" -> "auth.test"
      [] OTHER -> EndpointOfMissing(m)

NoRequest == [method |-> "none", endpoint |-> "none", ok |-> FALSE]

InitTLVars ==
    /\ tool = "none"
    /\ treq = NoRequest
    /\ server_last_read = [c \in Convs |-> NoTs]

\* server.py lines 371-458: call_tool dispatches to the tool
ToolStart(t) ==
    /\ tool = "none"
    /\ tool' = t
    /\ treq' = NoRequest
    /\ UNCHANGED server_last_read
    /\ UNCHANGED restTL

\* the running tool calls method m of the client, about conversation c with
\* timestamp ts; ok: the request succeeded.  The server moves its watermark
\* when it serves conversations.mark and at no other request.
ToolCalls(m, c, ts, ok) ==
    /\ tool # "none"
    /\ m \in Calls(tool)
    /\ treq' = [method |-> m, endpoint |-> Endpoint(m), ok |-> ok]
    /\ server_last_read' = IF ok /\ Endpoint(m) = "conversations.mark"
                           THEN [server_last_read EXCEPT ![c] = ts]
                           ELSE server_last_read
    /\ UNCHANGED tool
    /\ UNCHANGED restTL

\* server.py lines 460-463: the tool returned or raised
ToolEnd ==
    /\ tool # "none"
    /\ tool' = "none"
    /\ UNCHANGED <<treq, server_last_read>>
    /\ UNCHANGED restTL

ClientMethods == UNION {Calls(t) : t \in ToolNames}

NextTL ==
    \/ \E t \in ToolNames : ToolStart(t)
    \/ \E m \in ClientMethods, c \in Convs, ts \in Timestamps, ok \in BOOLEAN :
           ToolCalls(m, c, ts, ok)
    \/ ToolEnd

(***************************************************************************)
(* The clients of two tenants (WorkspaceManager.__init__, workspace.py     *)
(* 14-25; SlackClient.__init__, slack_client.py 64-78), each with a task   *)
(* in _request (108-158) and the RateLimiter of its client (20-49).  The   *)
(* clock is shared: a tick ages every limiter and every sleep.             *)
(***************************************************************************)
Pair == {1, 2}

\* every client is given the same RateLimiter object
LimiterOf_Shared(n) == 1

\* slack_client.py line 72: self._rate_limiter = RateLimiter(), one per client
LimiterOf(n) == n

\* the rate-controller state of the client of tenant n
RateState(n) == limiter[LimiterOf(n)]

InitTIVars ==
    /\ limiter = [n \in Pair |-> [since |-> SinceCap, backoff |-> ResetValue, lock |-> 0]]
    /\ cpc = [n \in Pair |-> "idle"]
    /\ ctimer = [n \in Pair |-> 0]
    /\ ccached = [n \in Pair |-> FALSE]
    /\ served429 = 0
    /\ actor = 0

\* line 126: _request is called on the client of tenant n
CallOn(n) ==
    /\ cpc[n] = "idle"
    /\ cpc' = [cpc EXCEPT ![n] = "acquire"]
    /\ actor' = n
    /\ UNCHANGED <<limiter, ctimer, ccached, served429>>
    /\ UNCHANGED restTI

\* RateLimiter.acquire, lines 36-41, up to the sleep
AcquireEnterOn(n) ==
    LET l == LimiterOf(n)
        wait_time == Interval * limiter[l].backoff - limiter[l].since
    IN
    /\ cpc[n] = "acquire"
    /\ limiter[l].lock = 0
    /\ IF wait_time > 0
       THEN /\ limiter' = [limiter EXCEPT ![l].lock = n]
            /\ ctimer' = [ctimer EXCEPT ![n] = wait_time]
            /\ cpc' = [cpc EXCEPT ![n] = "rl_sleep"]
       ELSE /\ limiter' = [limiter EXCEPT ![l].since = 0]
            /\ cpc' = [cpc EXCEPT ![n] = "inflight"]
            /\ UNCHANGED ctimer
    /\ actor' = n
    /\ UNCHANGED <<ccached, served429>>
    /\ UNCHANGED restTI

\* RateLimiter.acquire, line 41 after the sleep, and the request going out
AcquireWakeOn(n) ==
    LET l == LimiterOf(n) IN
    /\ cpc[n] = "rl_sleep"
    /\ ctimer[n] = 0
    /\ limiter' = [limiter EXCEPT ![l].since = 0, ![l].lock = 0]
    /\ cpc' = [cpc EXCEPT ![n] = "inflight"]
    /\ actor' = n
    /\ UNCHANGED <<ctimer, ccached, served429>>
    /\ UNCHANGED restTI

\* lines 136-158: the answer r to the request of tenant n's task
RespondOn(n, r) ==
    LET l == LimiterOf(n) IN
    /\ cpc[n] = "inflight"
    /\ IF r = "ok"
       THEN /\ limiter' = [limiter EXCEPT ![l].backoff = ResetValue]
            /\ ccached' = [ccached EXCEPT ![n] = TRUE]
            /\ cpc' = [cpc EXCEPT ![n] = "idle"]
            /\ UNCHANGED served429
       ELSE IF Retried(r)
       THEN /\ served429 < MaxRateLimits
            /\ served429' = served429 + 1
            /\ limiter' = [limiter EXCEPT ![l].backoff = BackoffValue(@)]
            /\ cpc' = [cpc EXCEPT ![n] = "retry_sleep"]
            /\ UNCHANGED ccached
       ELSE /\ cpc' = [cpc EXCEPT ![n] = "idle"]
            /\ UNCHANGED <<limiter, ccached, served429>>
    /\ actor' = n
    /\ UNCHANGED ctimer
    /\ UNCHANGED restTI

\* lines 144-145 and 155-156: the retry sleep is over, _request is called again
RetryWakeOn(n) ==
    /\ cpc[n] = "retry_sleep"
    /\ cpc' = [cpc EXCEPT ![n] = "acquire"]
    /\ actor' = n
    /\ UNCHANGED <<limiter, ctimer, ccached, served429>>
    /\ UNCHANGED restTI

\* the monotonic clock advances by one tick
TickAll ==
    /\ \/ \E l \in Pair : limiter[l].since < SinceCap
       \/ \E n \in Pair : ctimer[n] > 0
    /\ limiter' = [l \in Pair |-> [limiter[l] EXCEPT !.since = Min(@ + 1, SinceCap)]]
    /\ ctimer' = [n \in Pair |-> Max(ctimer[n] - 1, 0)]
    /\ actor' = 0
    /\ UNCHANGED <<cpc, ccached, served429>>
    /\ UNCHANGED restTI

NextTI ==
    \/ \E n \in Pair : CallOn(n)
    \/ \E n \in Pair : AcquireEnterOn(n)
    \/ \E n \in Pair : AcquireWakeOn(n)
    \/ \E n \in Pair, r \in Responses : RespondOn(n, r)
    \/ \E n \in Pair : RetryWakeOn(n)
    \/ TickAll

(***************************************************************************)
(* The specifications.  Each one starts the variables of the others in one *)
(* fixed state: one configured tenant named 1, default arguments drawn as  *)
(* the smallest ones.                                                      *)
(***************************************************************************)
OneTenant == Configured(config) = {1} /\ config.workspaces[1] = <<1, 1>>

GUAtRest ==
    /\ max_conversations_to_check = 1
    /\ max_dms_to_scan = 1
    /\ include = [dms |-> TRUE, channels |-> TRUE, mentions |-> TRUE]

\* the one configured tenant is the one registered name
MTAtRest == workspace_names = <<1>>

(***************************************************************************)
(* The batch loop of a probing phase (tools/get_unread.py 86-98 for the    *)
(* DMs, 204-212 for the channels), over a list that is longer than one     *)
(* batch.  A probe is a check_dm_unread / check_channel_unread coroutine   *)
(* handed to asyncio.gather; what it returns is left out here.             *)
(***************************************************************************)
Slots == 1..(batch_size + MaxExtra)

\* dms_to_check[i:i + batch_size] of a list of n conversations
Slice(i, n) == {c \in Slots : i < c /\ c <= Min(i + batch_size, n)}

InitBTVars ==
    /\ bpc = "idle"
    /\ to_probe = 0
    /\ batch_start = 0
    /\ probe_task = [c \in Slots |-> "none"]

\* gather returns as soon as one probe of the batch has
Gathered_AnyDone(i, n) == \E c \in Slice(i, n) : probe_task[c] = "done"

\* line 92 / 209: await asyncio.gather(...) returns when every probe of the
\* batch has returned
Gathered(i, n) == \A c \in Slice(i, n) : probe_task[c] = "done"

\* lines 90-92 / 207-209: the loop at index i over n conversations hands the
\* next batch to gather, or is over
StartBatch(i, n) ==
    /\ batch_start' = i
    /\ IF i < n
       THEN /\ bpc' = "gather"
            /\ probe_task' = [c \in Slots |->
                                 IF c \in Slice(i, n) THEN "flight" ELSE probe_task[c]]
       ELSE /\ bpc' = "ranked"
            /\ UNCHANGED probe_task

\* lines 84-90 / 202-207: the phase has n conversations to probe
LoopStart(n) ==
    /\ bpc = "idle"
    /\ to_probe' = n
    /\ StartBatch(0, n)
    /\ UNCHANGED restBT

\* lines 58-81 / 175-198: the probe of conversation c returns, with a verdict
\* or with None (its except clause catches what its calls raise)
ProbeReturns(c) ==
    /\ bpc = "gather"
    /\ probe_task[c] = "flight"
    /\ probe_task' = [probe_task EXCEPT ![c] = "done"]
    /\ UNCHANGED <<bpc, to_probe, batch_start>>
    /\ UNCHANGED restBT

\* lines 92-98 / 209-212: gather returned and the results are collected
GatherReturns ==
    /\ bpc = "gather"
    /\ Gathered(batch_start, to_probe)
    /\ StartBatch(batch_start + batch_size, to_probe)
    /\ UNCHANGED to_probe
    /\ UNCHANGED restBT

NextBT ==
    \/ \E n \in 0..(batch_size + MaxExtra) : LoopStart(n)
    \/ \E c \in Slots : ProbeReturns(c)
    \/ GatherReturns

(***************************************************************************)
(* check_dm_unread (tools/get_unread.py 58-81) on one conversation, with   *)
(* the answers of its calls kept beside the verdict it returns.            *)
(***************************************************************************)
\* line 76: limit=10
CountLimit == 10

\* what get_conversation_info can answer for a DM-kind conversation
DmResponses ==
    {r \in [display : 0..MaxCount, raw : 0..MaxCount, mpim : BOOLEAN, user : BOOLEAN,
            last_read : {NoTs, Sentinel} \cup Timestamps] : r.mpim => ~r.user}

NoInfo == [display |-> 0, raw |-> 0, mpim |-> FALSE, user |-> FALSE, last_read |-> NoTs]

InitDVVars ==
    /\ vpc = "idle"
    /\ detail = NoInfo
    /\ msgs = NoTs
    /\ unread_msgs = NoResult
    /\ raised = FALSE
    /\ verdict = NoResult

\* line 61: the probe is started and asks for the detail
DmProbe ==
    /\ vpc = "idle"
    /\ vpc' = "info"
    /\ UNCHANGED <<detail, msgs, unread_msgs, raised, verdict>>
    /\ UNCHANGED restDV

\* lines 61-70, 81: the detail call answered r
DmInfo(r) ==
    /\ vpc = "info"
    /\ detail' = r
    /\ IF CountVerdict(r) > 0
       THEN vpc' = "returned" /\ verdict' = CountVerdict(r)
       ELSE IF Fallback("dm", r)
       THEN vpc' = "latest" /\ UNCHANGED verdict
       ELSE vpc' = "returned" /\ verdict' = NoResult
    /\ UNCHANGED <<msgs, unread_msgs, raised>>
    /\ UNCHANGED restDV

\* lines 72-73, 81: the limit=1 history call answered; newest is the ts of the
\* message it returned (NoTs: no message)
DmLatest(newest) ==
    /\ vpc = "latest"
    /\ msgs' = newest
    /\ IF newest # NoTs /\ newest > detail.last_read
       THEN vpc' = "count" /\ UNCHANGED verdict
       ELSE vpc' = "returned" /\ verdict' = NoResult
    /\ UNCHANGED <<detail, unread_msgs, raised>>
    /\ UNCHANGED restDV

\* lines 75-78: the history call with oldest=last_read and limit=10 answered;
\* the server holds k messages after the bound and returns at most limit of them
DmCount(k) ==
    /\ vpc = "count"
    /\ unread_msgs' = Min(k, CountLimit)
    /\ verdict' = unread_msgs'
    /\ vpc' = "returned"
    /\ UNCHANGED <<detail, msgs, raised>>
    /\ UNCHANGED restDV

\* lines 79-81: a call of the probe raised
DmRaise ==
    /\ vpc \in {"info", "latest", "count"}
    /\ raised' = TRUE
    /\ verdict' = NoResult
    /\ vpc' = "returned"
    /\ UNCHANGED <<detail, msgs, unread_msgs>>
    /\ UNCHANGED restDV

NextDV ==
    \/ DmProbe
    \/ \E r \in DmResponses : DmInfo(r)
    \/ \E newest \in Timestamps \cup {NoTs} : DmLatest(newest)
    \/ \E k \in 0..(CountLimit + MaxOver) : DmCount(k)
    \/ DmRaise

(***************************************************************************)
(* The author ids of one run of _get_unread_for_workspace (tools/          *)
(* get_unread.py 19-347): where they enter user_ids_to_prefetch, where     *)
(* prefetch_users is called with the set, and where a name is read from    *)
(* the user cache for an entry of unread_dms or unread_channels.  The      *)
(* mention block (260-311) prefetches and renders its own authors.         *)
(***************************************************************************)
\* conv.user of a conversation that has none
NoUser == 0

InitAPVars ==
    /\ apc = "start"
    /\ prefetch_ids = {}
    /\ dm_users = {}
    /\ prefetch_calls = <<>>
    /\ name_lookups = {}

\* the ids the prefetch_users calls made so far were given
Prefetched == UNION {prefetch_calls[i].ids : i \in DOMAIN prefetch_calls}

\* _get_cached_user_name(client, id) for each id of ids (lines 10-16), for an
\* entry of list: a read of client._users_cache; prefetched: an earlier
\* prefetch_users call had the id
Lookups(ids, list) ==
    {[user |-> u, for |-> list, prefetched |-> u \in Prefetched] : u \in ids}

\* line 47: if include_dms
APStart(dms) ==
    /\ apc = "start"
    /\ apc' = IF dms THEN "dms" ELSE "channels"
    /\ UNCHANGED <<prefetch_ids, dm_users, prefetch_calls, name_lookups>>
    /\ UNCHANGED restAP

\* lines 93-98: a DM with unread messages whose conv.user is u joins
\* dm_convs_with_unread
APCollect(u) ==
    /\ apc = "dms"
    /\ dm_users' = dm_users \cup {u}
    /\ prefetch_ids' = prefetch_ids \cup {u}
    /\ UNCHANGED <<apc, prefetch_calls, name_lookups>>
    /\ UNCHANGED restAP

\* lines 104-105: prefetch_users(list(user_ids_to_prefetch)) if the set is not
\* empty; ok: the call returned
APPrefetchDMs(ok) ==
    /\ apc = "dms"
    /\ prefetch_ids = {} => ok
    /\ prefetch_calls' = IF prefetch_ids # {}
                         THEN Append(prefetch_calls, [after |-> "dms", ids |-> prefetch_ids])
                         ELSE prefetch_calls
    /\ apc' = IF ok THEN "dm_fetch" ELSE "raised"
    /\ UNCHANGED <<prefetch_ids, dm_users, name_lookups>>
    /\ UNCHANGED restAP

\* lines 125-160: the entry of a DM whose history call answered messages written
\* by authors; p is conv.user of an im conversation (NoUser: an mpim, whose
\* name is not read from the cache)
APDmEntry(p, authors) ==
    /\ apc = "dm_fetch"
    /\ prefetch_ids' = prefetch_ids \cup authors
    /\ name_lookups' =
          name_lookups \cup
              Lookups((IF p = NoUser THEN {} ELSE {p}) \cup authors, "unread_dms")
    /\ UNCHANGED <<apc, dm_users, prefetch_calls>>
    /\ UNCHANGED restAP

\* the loop of line 107 is over
APDmsDone ==
    /\ apc = "dm_fetch"
    /\ apc' = "channels"
    /\ UNCHANGED <<prefetch_ids, dm_users, prefetch_calls, name_lookups>>
    /\ UNCHANGED restAP

\* lines 231-253: the entry of a channel whose history call answered messages
\* written by authors
APChannelEntry(authors) ==
    /\ apc = "channels"
    /\ prefetch_ids' = prefetch_ids \cup authors
    /\ name_lookups' = name_lookups \cup Lookups(authors, "unread_channels")
    /\ UNCHANGED <<apc, dm_users, prefetch_calls>>
    /\ UNCHANGED restAP

\* lines 257-258: prefetch_users(list(user_ids_to_prefetch)) if the set is not
\* empty; ok: the call returned
APPrefetchAll(ok) ==
    /\ apc = "channels"
    /\ prefetch_ids = {} => ok
    /\ prefetch_calls' = IF prefetch_ids # {}
                         THEN Append(prefetch_calls,
                                     [after |-> "channels", ids |-> prefetch_ids])
                         ELSE prefetch_calls
    /\ apc' = IF ok THEN "returned" ELSE "raised"
    /\ UNCHANGED <<prefetch_ids, dm_users, name_lookups>>
    /\ UNCHANGED restAP

NextAP ==
    \/ \E dms \in BOOLEAN : APStart(dms)
    \/ \E u \in UserIds : APCollect(u)
    \/ \E ok \in BOOLEAN : APPrefetchDMs(ok)
    \/ \E p \in dm_users \cup {NoUser}, authors \in SUBSET UserIds : APDmEntry(p, authors)
    \/ APDmsDone
    \/ \E authors \in SUBSET UserIds : APChannelEntry(authors)
    \/ \E ok \in BOOLEAN : APPrefetchAll(ok)

InitRL ==
    /\ InitRLVars /\ InitWMVars /\ OneTenant /\ InitGUVars /\ GUAtRest
    /\ InitMTVars /\ MTAtRest /\ InitUCVars /\ InitTLVars /\ InitTIVars /\ InitSVVars /\ InitBTVars /\ InitDVVars /\ InitAPVars

InitWM ==
    /\ InitWMVars /\ InitRLVars /\ InitGUVars /\ GUAtRest
    /\ InitMTVars /\ MTAtRest /\ InitUCVars /\ InitTLVars /\ InitTIVars /\ InitSVVars /\ InitBTVars /\ InitDVVars /\ InitAPVars

InitGU ==
    /\ InitGUVars /\ InitRLVars /\ InitWMVars /\ OneTenant
    /\ InitMTVars /\ MTAtRest /\ InitUCVars /\ InitTLVars /\ InitTIVars /\ InitSVVars /\ InitBTVars /\ InitDVVars /\ InitAPVars

InitMT ==
    /\ InitMTVars /\ InitRLVars /\ InitWMVars /\ OneTenant /\ InitGUVars /\ GUAtRest
    /\ InitUCVars /\ InitTLVars /\ InitTIVars /\ InitSVVars /\ InitBTVars /\ InitDVVars /\ InitAPVars

InitUC ==
    /\ InitUCVars /\ InitRLVars /\ InitWMVars /\ OneTenant /\ InitGUVars /\ GUAtRest
    /\ InitMTVars /\ MTAtRest /\ InitTLVars /\ InitTIVars /\ InitSVVars /\ InitBTVars /\ InitDVVars /\ InitAPVars

InitTL ==
    /\ InitTLVars /\ InitRLVars /\ InitWMVars /\ OneTenant /\ InitGUVars /\ GUAtRest
    /\ InitMTVars /\ MTAtRest /\ InitUCVars /\ InitTIVars /\ InitSVVars /\ InitBTVars /\ InitDVVars /\ InitAPVars

InitTI ==
    /\ InitTIVars /\ InitSVVars /\ InitBTVars /\ InitDVVars /\ InitAPVars /\ InitRLVars /\ InitWMVars /\ OneTenant /\ InitGUVars /\ GUAtRest
    /\ InitMTVars /\ MTAtRest /\ InitUCVars /\ InitTLVars

SpecRL == InitRL /\ [][NextRL]_vars

\* the request pipeline against a server that answers every call with success
NextRF ==
    \/ \E t \in Tasks : Call(t)
    \/ \E t \in Tasks : AcquireEnter(t)
    \/ \E t \in Tasks : AcquireWake(t)
    \/ \E t \in Tasks : Send(t)
    \/ \E t \in Tasks : Respond(t, "ok", NoHeader)
    \/ Tick

\* That pipeline under a fair scheduler.  The clock advances and a sleep that
\* is over returns (weak fairness).  asyncio.Lock wakes its waiters in the
\* order they arrived, so a task waiting at line 36 is not passed over for ever
\* while the lock keeps being released (strong fairness of its entry).
SpecRF ==
    /\ InitRL
    /\ [][NextRF]_vars
    /\ WF_vars(Tick)
    /\ \A t \in Tasks : WF_vars(AcquireWake(t)) /\ SF_vars(AcquireEnter(t))

SpecWM == InitWM /\ [][NextWM]_vars

SpecGU == InitGU /\ [][NextGU]_vars

\* get_unread(include_dms=False, include_channels=False): lines 47 and 165 skip
\* both listing phases
InitMF ==
    /\ InitGU
    /\ include = [dms |-> FALSE, channels |-> FALSE, mentions |-> TRUE]
    /\ max_conversations_to_check = 1
    /\ max_dms_to_scan = 1

NextMF ==
    \/ Enter
    \/ ChannelsEntry
    \/ PrefetchAll
    \/ \E n \in (0..MaxFound) \cup {Err} : MentionSearch(n)
    \/ MentionsExcept
    \/ \E ch \in Convs, ts \in Timestamps, r \in {NoTs, Sentinel, 1, Err} :
          MentionHit(ch, ts, r)
    \/ FilterDone
    \/ Summary

SpecMF == InitMF /\ [][NextMF]_vars

\* get_unread with its default arguments, on a workspace where every DM reports
\* a positive displayed unread count and has messages to show, and no channel
\* has a watermark or a count; both listings return MaxListed conversations
InitSC ==
    /\ max_conversations_to_check = DefaultBudget
    /\ max_dms_to_scan = DefaultDmScan
    /\ include = [dms |-> TRUE, channels |-> TRUE, mentions |-> TRUE]
    /\ InitGULocals
    /\ InitRLVars /\ InitWMVars /\ OneTenant
    /\ InitMTVars /\ MTAtRest /\ InitUCVars /\ InitTLVars /\ InitTIVars /\ InitSVVars /\ InitBTVars /\ InitDVVars /\ InitAPVars

NextSC ==
    \/ Enter
    \/ ListConversations(MaxListed)
    \/ \E c \in Convs, r \in DisplayedUnread : phase = "dm" /\ ProbeInfo(c, r)
    \/ \E c \in Convs, r \in Unwatermarked : phase = "channel" /\ ProbeInfo(c, r)
    \/ BatchDone
    \/ Rank
    \/ PrefetchDMs
    \/ \E n \in 1..MaxMessages, hasUser \in BOOLEAN : FinalFetch(n, hasUser)
    \/ FetchDone
    \/ ChannelsEntry
    \/ PrefetchAll
    \/ \E n \in 0..MaxHits : MentionSearch(n)
    \/ \E ch \in Convs, ts \in Timestamps, r \in {NoTs, Sentinel, 1, Err} :
          MentionHit(ch, ts, r)
    \/ FilterDone
    \/ Summary

SpecSC == InitSC /\ [][NextSC]_vars

\* a run that asks for DMs and channels, against a server that holds a newest
\* message per conversation: the count fields of a detail answer are the
\* server's to choose (they may be stale), a history call answers messages
\* exactly when one is newer than its lower bound, or it fails
InitCW ==
    /\ max_conversations_to_check = MaxBudget
    /\ max_dms_to_scan = MaxScan
    /\ include = [dms |-> TRUE, channels |-> TRUE, mentions |-> FALSE]
    /\ InitGULocals
    /\ server_newest \in [Convs -> Timestamps \cup {NoTs}]
    /\ InitBTVars /\ InitDVVars /\ InitAPVars
    /\ InitRLVars /\ InitWMVars /\ OneTenant
    /\ InitMTVars /\ MTAtRest /\ InitUCVars /\ InitTLVars /\ InitTIVars

\* the detail answers of that server: at most one count field is positive, and
\* the authors of messages are left out
CountAnswers == {r \in InfoResponses : ~r.user /\ (r.display = 0 \/ r.raw = 0)}

\* the oldest parameter of the message fetch of lines 112-120 / 219-227
FetchOldest ==
    LET conv == with_unread[fetched + 1] IN
    IF conv.last_read # NoTs /\ IsSentinel(conv.last_read) THEN NoTs ELSE conv.last_read

NextCW ==
    \/ Enter
    \/ \E n \in 0..MaxListed : ListConversations(n)
    \/ \E c \in Convs, r \in CountAnswers : ProbeInfo(c, r)
    \/ \E c \in Convs : ProbeInfoFail(c)
    \/ \E c \in Convs : ProbeLatest(c, server_newest[c])
    \/ \E c \in Convs, n \in 0..MaxMessages :
          /\ gpc = "probe" /\ probe[c] = "count"
          /\ n > 0 <=> NewerThan(c, detailed[c].last_read)
          /\ ProbeCount(c, n)
    \/ BatchDone
    \/ Rank
    \/ \E n \in 0..MaxMessages :
          /\ gpc = "fetch" /\ fetched < Retained
          /\ n > 0 <=> NewerThan(with_unread[fetched + 1].id, FetchOldest)
          /\ FinalFetch(n, FALSE)
    \/ FinalFetch(Err, FALSE)
    \/ FetchDone
    \/ ChannelsEntry
    \/ PrefetchAll
    \/ Summary

SpecCW == InitCW /\ [][NextCW]_vars

InitBT ==
    /\ InitBTVars /\ InitDVVars /\ InitAPVars /\ InitSVVars /\ InitTIVars /\ InitRLVars /\ InitWMVars /\ OneTenant
    /\ InitGUVars /\ GUAtRest /\ InitMTVars /\ MTAtRest /\ InitUCVars /\ InitTLVars

SpecBT == InitBT /\ [][NextBT]_vars

SpecBO == InitRL /\ [][NextBO]_vars

InitDV ==
    /\ InitDVVars /\ InitAPVars /\ InitBTVars /\ InitSVVars /\ InitTIVars /\ InitRLVars /\ InitWMVars
    /\ OneTenant /\ InitGUVars /\ GUAtRest /\ InitMTVars /\ MTAtRest /\ InitUCVars
    /\ InitTLVars

SpecDV == InitDV /\ [][NextDV]_vars

SpecAP == InitDV /\ [][NextAP]_vars

SpecMT == InitMT /\ [][NextMT]_vars

SpecUC == InitUC /\ [][NextUC]_vars

SpecLW == InitUC /\ [][NextLW]_vars /\ WF_vars(NextLW)

SpecCL == InitUC /\ [][NextCL]_vars

SpecRW == InitUC /\ [][NextRW]_vars

SpecTL == InitTL /\ [][NextTL]_vars

SpecTI == InitTI /\ [][NextTI]_vars

(***************************************************************************)
(* Claims about the rate controller and the request pipeline (SpecRL).    *)
(***************************************************************************)

\* the acquire() of task t completes (stamps _last_request) in this step
AcquireDone(t) == pc[t] \in {"acquire", "rl_sleep"} /\ pc'[t] = "send"

\* the multiplier that acquire() computed its wait from
ReadBy(t) == IF pc[t] = "rl_sleep" THEN mread[t] ELSE backoff

\* the response to task t's call arrives in this step
Answered(t) == pc[t] = "inflight" /\ pc'[t] # "inflight"

C4_MutualExclusion ==
    /\ Cardinality({t \in Tasks : pc[t] = "rl_sleep"}) <= 1
    /\ \A t \in Tasks : pc[t] = "rl_sleep" => lock = t

\* C4 witness: one task waits inside the critical section while another one
\* has called acquire() and is held at the lock.
C4_Witness ==
    \E t1, t2 \in Tasks :
        /\ t1 # t2 /\ pc[t1] = "rl_sleep" /\ timer[t1] > 0 /\ pc[t2] = "acquire"

\* C5 as claimed: the multiplier never changes while a task is inside the
\* acquire critical section.
C5_MultiplierUnderLock ==
    [][backoff' # backoff => ~(\E t \in Tasks : pc[t] = "rl_sleep")]_vars

C7_NoRetryOnError ==
    \A t \in Tasks :
        lastResp[t] \in HardErrors =>
            /\ pc[t] = "idle"
            /\ wire[t] = "none"
            /\ outcome[t] \in {"SlackAPIError", "TransportError"}

\* C7 witness: a call has failed on a soft error.
C7_Witness ==
    \E t \in Tasks :
        lastResp[t] = "soft_error" /\ outcome[t] = "SlackAPIError" /\ pc[t] = "idle"

\* C8 as claimed: whatever _request raises is a SlackAPIError.
C8_OnlyClassifiedErrors ==
    \A t \in Tasks : outcome[t] \in {"none", "returned", "SlackAPIError"}

(***************************************************************************)
(* Claims about the WorkspaceManager and reload_config (SpecWM).           *)
(***************************************************************************)

\* C9 as claimed: once reload_config has returned after replacing the client
\* of a tenant whose token or cookie changed, every call issued for that
\* tenant carries the tenant's configured credentials, also a call issued
\* through a client obtained from get_client before the reload.
C9_NoStaleCredentials ==
    (rpc = "idle" /\ result = "ok" /\ lastCall # <<>>) =>
        (lastCall[1] \in changes.updated =>
            lastCall[2] = config.workspaces[lastCall[1]])

\* the step on which reload_config returns its changes
ReloadReturned == rpc' = "idle" /\ result' = "ok"

\* C10: when reload_config returns, every tenant that was registered and is
\* absent from the new configuration has had close() called on its client and
\* is unregistered, every tenant new to the configuration has a client built
\* from its credentials, every tenant in both whose token or cookie differs
\* from the one in the configuration the manager held has had close() called
\* on its old client and has a client built from the new credentials, and the
\* registered names are the names of the new configuration.
C10_ReloadPostconditions ==
    [][ReloadReturned =>
        /\ \A n \in prev_names' \ Configured(new_config') :
              n \in closed_now' /\ clients'[n] = 0
        /\ \A n \in Configured(new_config') \ prev_names' :
              /\ clients'[n] # 0
              /\ objs'[clients'[n]].creds = new_config'.workspaces[n]
        /\ \A n \in Configured(new_config') \cap prev_names' :
              (\/ config.workspaces[n][1] # new_config'.workspaces[n][1]
               \/ config.workspaces[n][2] # new_config'.workspaces[n][2]) =>
                  /\ n \in closed_now'
                  /\ n \in changes'.updated
                  /\ clients'[n] # 0
                  /\ objs'[clients'[n]].creds = new_config'.workspaces[n]
        /\ Registered' = Configured(new_config')
        /\ config' = new_config']_vars

\* C10 witness: a reload has returned after removing one tenant and replacing
\* the client of another one whose cookie alone had changed, while a handler
\* still holds the replaced client.
C10_Witness ==
    /\ rpc = "idle" /\ result = "ok"
    /\ changes.removed # {}
    /\ \E n \in changes.updated :
          /\ held = Detached
          /\ objs[Detached].name = n
          /\ objs[Detached].creds[1] = config.workspaces[n][1]
          /\ objs[Detached].creds[2] # config.workspaces[n][2]

(***************************************************************************)
(* Claims about the unread reconciliation (SpecGU).                        *)
(***************************************************************************)

\* C1 as claimed: in one run the detail probes (get_conversation_info calls of
\* check_dm_unread and check_channel_unread) number at most
\* max_conversations_to_check, however many conversations are listed.
C1_ProbesWithinBudget == infoCalls <= max_conversations_to_check

\* C2 as claimed: no history fetch of the reconciliation, be it the count
\* fetch of a probe or the message fetch of a retained conversation, is given
\* the all-zero watermark as its oldest bound.
C2_SentinelNeverLowerBound ==
    lastHistory # <<>> => ~IsSentinel(lastHistory[2])

\* a step in which reload_config changes the registry or its own bookkeeping
ReloadActs ==
    <<config, clients, rpc, changes, closed_now, built_now>>' #
        <<config, clients, rpc, changes, closed_now, built_now>>

\* the names configured before and after with the same token and cookie
Untouched(old, new) ==
    {n \in Names : old.workspaces[n] # Absent /\ new.workspaces[n] = old.workspaces[n]}

\* C11: reload_config leaves a tenant that is in both configurations with the
\* same credential pair alone: no step of it changes the registry entry of the
\* tenant or any field of its client, it does not call close() on the client
\* and it constructs no client for the name.
C11_UntouchedTenantKept ==
    [][ReloadActs =>
        \A n \in Untouched(config, new_config') :
            /\ clients[n] # 0
            /\ clients'[n] = clients[n]
            /\ objs'[clients[n]] = objs[clients[n]]
            /\ n \notin closed_now'
            /\ n \notin built_now']_vars

\* a reload has returned that replaced one client and left alone another one
\* whose connection is open
C11_Witness ==
    /\ rpc = "idle"
    /\ result = "ok"
    /\ changes.updated # {}
    /\ \E n \in Registered \ (changes.added \cup changes.updated) :
           /\ objs[clients[n]].http
           /\ n \notin closed_now
           /\ n \notin built_now

\* C12, checked on the step on which a reload_config returns ok (a step that
\* leaves the manager as it was is a reload without any difference, or a step
\* of a handler): the changes dict reload_config returns is the exact difference between
\* the registry it found and the configuration it loaded: added are the new
\* names, removed the names that are gone, updated the names in both whose token
\* or cookie differs; no name is in two of the lists.
C12_DiffExact ==
    [][ReloadReturned /\ (ReloadActs \/ result # "ok") =>
        /\ changes'.added = Configured(new_config') \ prev_names'
        /\ changes'.removed = prev_names' \ Configured(new_config')
        /\ changes'.updated =
               {n \in Configured(new_config') \cap prev_names' :
                    \/ config.workspaces[n][1] # new_config'.workspaces[n][1]
                    \/ config.workspaces[n][2] # new_config'.workspaces[n][2]}
        /\ changes'.added \cap changes'.removed = {}
        /\ changes'.added \cap changes'.updated = {}
        /\ changes'.removed \cap changes'.updated = {}]_vars

\* a reload has returned that added one name and removed another
C12_Witness ==
    /\ rpc = "idle"
    /\ result = "ok"
    /\ changes.added # {}
    /\ changes.removed # {}
    /\ changes.updated = {}

\* the name a get_client call with argument w resolves, read off the state
Wanted(w) == IF w = NoName THEN config.default_workspace ELSE w

\* C13: get_client returns the client registered under the name given, or under
\* the default when none is given; it raises "no workspace specified" exactly
\* when no name is given and no default is configured, and "not found" exactly
\* when the resolved name is not registered, and lists the registered names in
\* both; it never returns a client registered under another name.
C13_GetClientContract ==
    answer.op = "get_client" =>
        LET name == Wanted(answer.arg) IN
        /\ answer.error = "no_default" <=> name = NoName
        /\ answer.error = "not_found" <=> (name # NoName /\ clients[name] = 0)
        /\ answer.error = "none" <=>
               /\ name # NoName
               /\ held # 0
               /\ clients[name] = held
               /\ objs[held].name = name
        /\ answer.error # "none" => answer.listed = Registered /\ held = 0
        /\ \A n \in Names \ {name} : held = 0 \/ clients[n] # held

\* get_client was called with a name while another name is the default, and
\* returned the client of the name given
C13_Witness ==
    /\ answer.op = "get_client"
    /\ answer.error = "none"
    /\ answer.arg # NoName
    /\ answer.arg # config.default_workspace
    /\ config.default_workspace # NoName
    /\ held = clients[answer.arg]

\* C14: when close_all has returned no registered client has an HTTP client
\* left, and the call changed nothing else: the registry and the configuration
\* are the same, a client that was already closed is as it was, and the call
\* did not raise.
C14_CloseAllSafe ==
    [][answer'.op = "close_all" =>
        /\ \A n \in Registered' : ~objs'[clients'[n]].http
        /\ answer'.error = "none"
        /\ clients' = clients
        /\ config' = config
        /\ \A o \in Objects : ~objs[o].http => objs'[o] = objs[o]
        /\ \A o \in Objects : objs'[o] = [objs[o] EXCEPT !.http = FALSE]]_vars

\* close_all has returned; it found one registered client open and another one
\* already closed
C14_Witness ==
    /\ answer.op = "close_all"
    /\ answer.listed # {}
    /\ Registered \ answer.listed # {}
    /\ \A n \in Registered : ~objs[clients[n]].http

\* the part of sequence s after its first n entries
After(s, n) == SubSeq(s, n + 1, Len(s))

\* sequence s begins with sequence t
Extends(s, t) == Len(t) <= Len(s) /\ SubSeq(s, 1, Len(t)) = t

C16_MentionFailureHarmless ==
    [][(gpc = "mentions" \/ gpc = "mentions_except" \/ gpc = "filter"
            \/ gpc = "summary") =>
          /\ gpc' # "raised"
          /\ unread_dms' = unread_dms
          /\ unread_channels' = unread_channels]_vars

\* a call of the mention block has raised in a run that had found an unread DM
\* and an unread channel
C16_Witness ==
    /\ gpc = "mentions_except"
    /\ unread_dms # <<>>
    /\ unread_channels # <<>>

\* C18: the mentions are exactly the hits above the watermark of their
\* conversation, in search order, at most 10.  Every hit the filter loop visits
\* is listed if and only if its conversation has a watermark and the timestamp
\* of the hit is strictly greater; the loop visits the hits one after the other
\* and only while fewer than 10 are listed; nothing after the loop changes the
\* list.
C18_MentionsAboveWatermark ==
    [][/\ (gpc = "filter" /\ gpc' = "filter") =>
             LET wm == channel_read_cache'[lastHit'.ch] IN
             /\ hits' = hits - 1
             /\ mentions < MaxMentions
             /\ wm # Unset
             /\ channel_read_cache[lastHit'.ch] # Unset =>
                    wm = channel_read_cache[lastHit'.ch]
             /\ mentions' = IF wm # NoTs /\ lastHit'.ts > wm
                            THEN mentions + 1 ELSE mentions
       /\ (gpc = "filter" /\ gpc' # "filter") =>
             /\ hits = 0 \/ mentions = MaxMentions
             /\ mentions' = mentions
       /\ gpc = "summary" => mentions' = mentions]_vars

\* the search returned 5 hits, the filter has visited all of them and listed 3
C18_Witness ==
    /\ gpc = "filter"
    /\ found = 5
    /\ hits = 0
    /\ mentions = 3

\* C17: get_unread always returns, and what it returns for a non-empty query has
\* exactly one entry per tenant queried, in query order; the entry of a tenant
\* is an error entry with zero totals exactly when its reconciliation raised
\* (an unknown tenant name included), whatever happened to the tenants before it.
C17_OneEntryPerTenant ==
    mpc = "done" =>
        /\ returned.kind # "none"
        /\ returned.kind = "needs_auth" <=> workspaces_to_check = <<>>
        /\ returned.kind = "combined" <=> Len(workspaces_to_check) > 1
        /\ workspaces_to_check # <<>> =>
            /\ Len(returned.workspaces) = Len(workspaces_to_check)
            /\ \A i \in DOMAIN returned.workspaces :
                /\ returned.workspaces[i].workspace = workspaces_to_check[i]
                /\ returned.workspaces[i].error <=> i \in raised_at
                /\ returned.workspaces[i].error =>
                       returned.workspaces[i].totals = ZeroTotals

\* get_unread over two tenants has returned: the first was no longer registered
\* when its turn came and has an error entry, the second was reconciled after it
\* and reports an unread DM message.
C17_Witness ==
    /\ mpc = "done"
    /\ returned.kind = "combined"
    /\ raised_at = {1}
    /\ \A i \in DOMAIN workspace_names : workspace_names[i] # workspaces_to_check[1]
    /\ returned.workspaces[2].totals.unread_dm_messages = 1

\* C19: a call of prefetch_users asks the remote for no identifier that is
\* cached when it starts, in particular for none that the prefetch_users call
\* right before it cached, and leaves the entry of every cached identifier as it is.
C19_PrefetchIdempotent ==
    [][ucall'.op = "prefetch_users" =>
          /\ \A u \in ucall'.requested : users_cache[u] = NoProfile
          /\ ucall.op = "prefetch_users" => ucall'.requested \cap ucall.added = {}
          /\ \A u \in UserIds :
                users_cache[u] # NoProfile => users_cache'[u] = users_cache[u]]_vars

\* two prefetch_users calls in a row: the second was given identifiers the first
\* had cached together with new ones, and fetched the new ones.
C19_Witness ==
    /\ ucall.op = "prefetch_users"
    /\ ucall.before \cap ucall.ids # {}
    /\ ucall.added # {}

\* C20: get_user_info of a cached identifier returns the cached profile, asks
\* the remote nothing and leaves the cache alone; of an identifier that is not
\* cached it issues one users.info request, and when that succeeds the profile
\* it answered is cached under the identifier and returned.  No identifier has
\* more than one successful users.info request.
C20_GetUserInfoCached ==
    [][/\ (upc = "idle" /\ ucall'.op = "get_user_info") =>
            \A u \in ucall'.ids :
                IF users_cache[u] # NoProfile
                THEN /\ ucall'.requested = {}
                     /\ ucall'.returned = users_cache[u]
                     /\ upc' = "idle"
                     /\ users_cache' = users_cache
                ELSE /\ ucall'.requested = {u}
                     /\ upc' = "info"
       /\ (upc = "info" /\ ~ucall'.raised) =>
            \A u \in ucall.ids :
                /\ ucall'.returned \in Profiles
                /\ users_cache' = [users_cache EXCEPT ![u] = ucall'.returned]
       /\ (upc = "info" /\ ucall'.raised) => users_cache' = users_cache
       /\ \A u \in UserIds : info_ok'[u] <= 1]_vars

\* get_user_info has just answered from the cache, for an identifier that an
\* earlier get_user_info call fetched.
C20_Witness ==
    /\ ucall.op = "get_user_info"
    /\ ucall.requested = {}
    /\ ucall.returned \in Profiles
    /\ \E u \in ucall.ids : info_ok[u] = 1

\* C21: no step of a listing, a user resolution, a prefetch or a close removes
\* an entry from the user cache or from the conversation cache of the client.
C21_CachesKeepEntries ==
    [][/\ \A u \in UserIds : users_cache[u] # NoProfile => users_cache'[u] # NoProfile
       /\ conversations_cache \subseteq conversations_cache']_vars

\* the client has listed conversations, resolved a user and then been closed:
\* both caches still hold their entries.
C21_Witness ==
    /\ ~http
    /\ conversations_cache # {}
    /\ ucall.op = "get_user_info"
    /\ \E u \in ucall.added : users_cache[u] # NoProfile

\* C23: every request of the listing walk carries the cursor of the answer
\* before it (none at first), the list is the concatenation in page order of the
\* items of the pages fetched, the walk stops at the first page without a
\* continuation cursor or when max_pages pages have been fetched, and it never
\* issues more than max_pages requests.
C23_WalkStopsAtMaxPages ==
    [][lpc = "page" =>
          /\ last_sent' = last_page.next
          /\ requests' <= max_pages
          /\ lpc' # "raised" =>
               /\ Len(conversations) + Len(last_page'.items) <= MaxWalk =>
                      conversations' = conversations \o last_page'.items
               /\ lpc' = "done" <=>
                      (last_page'.next = NoCursor \/ requests' = max_pages)]_vars

\* C24: every listing walk ends, by returning or by raising, whatever the
\* server answers.
C24_WalkTerminates == (lpc = "page") ~> (lpc # "page")

C25_TenantsIndependent ==
    [][/\ \A a \in Pair : actor' = a =>
            \A b \in Pair \ {a} : /\ RateState(b)' = RateState(b)
                                  /\ ccached'[b] = ccached[b]
                                  /\ cpc'[b] = cpc[b]
                                  /\ ctimer'[b] = ctimer[b]
       /\ \A b \in Pair : cpc'[b] = "acquire" => RateState(b)'.lock = 0]_vars

\* tenant 1's task sleeps in acquire() holding its limiter's lock, after a
\* rate-limit answer doubled the multiplier; tenant 2's task has just sent its
\* request with the multiplier of its own limiter at 1.
C25_Witness ==
    /\ cpc[1] = "rl_sleep"
    /\ RateState(1).backoff > 1
    /\ RateState(1).lock = 1
    /\ actor = 2
    /\ cpc[2] = "inflight"
    /\ RateState(2).backoff = 1
    /\ RateState(2).since = 0

\* a result list is ordered by non-increasing unread count
Descending(seq) ==
    \A i \in 1..Len(seq) - 1 : seq[i].unread_count >= seq[i + 1].unread_count

C27_CountAgreesWithWatermark ==
    [][(unread_dms' # unread_dms \/ unread_channels' # unread_channels) =>
          LET conv == with_unread[fetched + 1] IN
          conv.last_read # NoTs =>
              /\ server_newest[conv.id] # NoTs
              /\ server_newest[conv.id] > conv.last_read]_vars

\* a DM whose count field said unread while its newest message is the one at
\* its watermark had its messages fetched and was left out of the result
C27_Witness ==
    /\ gpc = "fetch"
    /\ phase = "dm"
    /\ fetched = 1
    /\ with_unread[1].last_read = 1
    /\ server_newest[with_unread[1].id] = 1
    /\ unread_dms = <<>>

\* the batch the conversation at position c of the list belongs to
BatchOf(c) == (c - 1) \div batch_size

\* C28: at most batch_size (15) probes of a phase are in flight at any time,
\* and a probe of a later batch is started only when every probe of every
\* earlier batch has returned.
C28_BatchesSequential ==
    /\ Cardinality({c \in Slots : probe_task[c] = "flight"}) <= batch_size
    /\ \A c, d \in Slots :
          BatchOf(c) < BatchOf(d) /\ probe_task[d] # "none" => probe_task[c] = "done"

\* the second batch of a list of more than batch_size conversations is with
\* gather: one of its probes is in flight, another has returned
C28_Witness ==
    /\ bpc = "gather"
    /\ batch_start = batch_size
    /\ probe_task[batch_size + 1] = "flight"
    /\ probe_task[batch_size + 2] = "done"

\* C29: the message-fetch loop of the DMs visits at most
\* max_conversations_to_check conversations, that of the channels at most
\* max_conversations_to_check minus the DMs visited; the channel phase is
\* entered only with budget left; unread_dms and unread_channels together
\* never hold more than max_conversations_to_check entries.
C29_ChannelsGetLeftover ==
    /\ checked_count <= max_conversations_to_check
    /\ Len(unread_dms) <= checked_count
    /\ Len(unread_channels) <= max_conversations_to_check - checked_count
    /\ Len(unread_dms) + Len(unread_channels) <= max_conversations_to_check
    /\ phase = "channel" =>
          /\ remaining_budget = max_conversations_to_check - checked_count
          /\ remaining_budget > 0
    /\ gpc = "fetch" =>
          fetched <= IF phase = "dm" THEN max_conversations_to_check
                     ELSE max_conversations_to_check - checked_count

\* one DM used a part of the budget; of the two channels found unread, the
\* first has had its messages fetched, which exhausts what the DMs left over
C29_Witness ==
    /\ gpc = "fetch"
    /\ phase = "channel"
    /\ checked_count = 1
    /\ remaining_budget = 1
    /\ Len(with_unread) = 2
    /\ fetched = 1
    /\ Len(unread_dms) = 1
    /\ Len(unread_channels) = 1

\* C30: check_dm_unread returns the displayed count if it is positive; else
\* the raw count if it is positive; else, only for a multi-party DM with a
\* watermark whose newest message is newer than the watermark, the number of
\* messages fetched after the watermark, which is at most 10; else None.  A
\* one-to-one DM with no positive count is never given an unread verdict.
C30_DmVerdictPriority ==
    vpc = "returned" /\ ~raised =>
        /\ verdict =
              IF detail.display > 0 THEN detail.display
              ELSE IF detail.raw > 0 THEN detail.raw
              ELSE IF /\ detail.mpim
                      /\ detail.last_read # NoTs
                      /\ msgs # NoTs
                      /\ msgs > detail.last_read
                   THEN unread_msgs
              ELSE NoResult
        /\ verdict <= CountLimit \/ detail.display > 0 \/ detail.raw > 0
        /\ ~detail.mpim /\ detail.display = 0 /\ detail.raw = 0 => verdict = NoResult

\* a multi-party DM without a positive count, whose newest message is newer
\* than its watermark and which has more than 10 messages after it, was given
\* the verdict 10
C30_Witness ==
    /\ vpc = "returned"
    /\ detail.mpim
    /\ detail.display = 0
    /\ detail.raw = 0
    /\ detail.last_read = 1
    /\ msgs = 2
    /\ verdict = CountLimit

\* C31: a task issues an HTTP call only from the position it reaches by
\* completing acquire() (the stamp of _last_request set, the lock not held by
\* it), and each completed acquire() is used for one call: after a call the
\* task has to pass acquire() again, on a retry as on a first attempt.
C31_AcquireBeforeAttempt ==
    [][\A t \in Tasks :
          /\ attempts'[t] > attempts[t] => pc[t] = "send" /\ pc'[t] = "inflight"
          /\ (pc'[t] = "send" /\ pc[t] # "send") =>
                /\ pc[t] = "acquire" \/ pc[t] = "rl_sleep"
                /\ since' = 0
                /\ lock' # t
          /\ (pc[t] = "send" /\ pc'[t] # "send") => attempts'[t] = attempts[t] + 1]_vars

\* a task whose first attempt was answered with a rate-limit signal has
\* completed acquire() again and is about to issue its second attempt
C31_Witness ==
    \E t \in Tasks :
        /\ pc[t] = "send"
        /\ attempts[t] = 1
        /\ since = 0
        /\ backoff > 1

\* the values the multiplier takes from 1 under repeated backoff()
Ladder == {1, 2, 4, 8, 16, 32, 60}

\* C32: the multiplier stays between 1 and 60; a backoff() call takes it from
\* m to min(2m, 60), so from 1 through 2, 4, 8, 16, 32 to 60, where it stays;
\* a reset_backoff() call takes it to 1.
C32_MultiplierBounded ==
    [][/\ 1 <= backoff' /\ backoff' <= 60
       /\ backoff' \in Ladder
       /\ IF ratelimits' > ratelimits
          THEN backoff' = (IF 2 * backoff <= 60 THEN 2 * backoff ELSE 60)
          ELSE backoff' = 1]_vars

\* the multiplier is at the ceiling after more backoff() calls than it takes
\* to get there
C32_Witness ==
    /\ backoff = 60
    /\ ratelimits = MaxBackoffCalls

\* C33: the iteration of the listing walk that receives a page writes every
\* conversation of the page to the conversation cache, and its watermark, if
\* it has one, to the watermark cache; a request that fails changes neither
\* cache, so the caches then hold every conversation of the pages before it.
C33_PagesCachedBeforeNext ==
    [][/\ lpc' # "idle" =>
             \A i \in DOMAIN conversations' : conversations'[i] \in conversations_cache'
       /\ (lpc = "page" /\ lpc' # "raised") =>
             \A i \in DOMAIN last_page'.items :
                 /\ last_page'.items[i] \in conversations_cache'
                 /\ last_page'.last_read # NoTs =>
                        last_read_cache'[last_page'.items[i]] = last_page'.last_read
       /\ (lpc = "page" /\ lpc' = "raised") =>
             /\ conversations_cache' = conversations_cache
             /\ last_read_cache' = last_read_cache]_vars

\* the request for the second page failed; the conversation of the first page
\* is in the conversation cache and its watermark in the watermark cache
C33_Witness ==
    /\ lpc = "raised"
    /\ requests = 2
    /\ Len(conversations) = 1
    /\ conversations[1] \in conversations_cache
    /\ last_read_cache[conversations[1]] # NoTs
    /\ last_page.last_read # NoTs

\* a step of a call on the watermark cache (no listing walk is under way)
CacheCall == lpc = "idle" /\ lpc' = "idle"

\* C34: a successful mark_conversation(channel, ts) leaves ts as the cached
\* watermark of the channel and a failed one leaves the cache as it was;
\* get_last_read(channel) returns the cached watermark; and the cached
\* watermark of a channel changes only in a write for that channel (a
\* successful mark, set_last_read, or a listed conversation with a watermark).
C34_ReadYourWrites ==
    [][/\ CacheCall =>
            /\ (wop'.op = "mark_conversation" /\ wop'.ok) =>
                   last_read_cache' = [last_read_cache EXCEPT ![wop'.channel] = wop'.ts]
            /\ (wop'.op = "mark_conversation" /\ ~wop'.ok) =>
                   last_read_cache' = last_read_cache
            /\ wop'.op = "get_last_read" =>
                   /\ wop'.returned = last_read_cache[wop'.channel]
                   /\ last_read_cache' = last_read_cache
       /\ \A c \in Convs :
            last_read_cache'[c] # last_read_cache[c] =>
                \/ /\ CacheCall
                   /\ wop'.channel = c
                   /\ wop'.op = "set_last_read" \/ (wop'.op = "mark_conversation" /\ wop'.ok)
                \/ /\ lpc = "page"
                   /\ last_page'.last_read # NoTs
                   /\ \E i \in DOMAIN last_page'.items : last_page'.items[i] = c]_vars

\* a successful mark has replaced the watermark a listing had cached for the
\* channel; another channel keeps the watermark it had
C34_Witness ==
    /\ wop.op = "mark_conversation"
    /\ wop.ok
    /\ wop.ts = 2
    /\ last_read_cache[wop.channel] = 2
    /\ wop.channel \in conversations_cache
    /\ \E d \in Convs \ {wop.channel} : last_read_cache[d] = 1

\* C35: during mention filtering get_conversation_info is called at most once
\* per conversation, whether the call succeeded or failed.  A hit is probed only
\* when its conversation has no entry in channel_read_cache; the visit of a hit
\* leaves an entry for its conversation; and an entry, once made, is neither
\* removed nor changed while the loop runs, so every later hit of the
\* conversation is decided on the outcome of the first.
C35_OneProbePerConversation ==
    [][(gpc = "filter" /\ gpc' = "filter") =>
          /\ lastHit'.probed <=> channel_read_cache[lastHit'.ch] = Unset
          /\ channel_read_cache'[lastHit'.ch] # Unset
          /\ \A c \in Convs :
                channel_read_cache[c] # Unset =>
                    channel_read_cache'[c] = channel_read_cache[c]
          /\ ~lastHit'.probed =>
                mentions' = IF IsUnread(lastHit'.ts, channel_read_cache[lastHit'.ch])
                            THEN mentions + 1 ELSE mentions]_vars

\* a hit was decided without a probe on the empty watermark that the first hit
\* of its conversation left, and another conversation has been probed too
C35_Witness ==
    /\ gpc = "filter"
    /\ ~lastHit.probed
    /\ lastHit.ch \in Convs
    /\ channel_read_cache[lastHit.ch] = NoTs
    /\ \E d \in Convs \ {lastHit.ch} : channel_read_cache[d] = 1
    /\ mentions = 1

\* C36: in one run prefetch_users is called at most once after the DM
\* processing and at most once after the channel processing, and every name
\* that is read from the user cache for an entry of unread_dms or
\* unread_channels is read after a prefetch_users call that was given its id.
C36_PrefetchedBeforeLookup ==
    /\ \A i, j \in DOMAIN prefetch_calls :
          prefetch_calls[i].after = prefetch_calls[j].after => i = j
    /\ \A l \in name_lookups : l.prefetched

\* the tenants of a result whose own totals show unread DM messages, channels
\* with unread messages, or unread mentions
ActiveTenants(rs) ==
    {i \in DOMAIN rs : \/ rs[i].totals.unread_dm_messages > 0
                       \/ rs[i].totals.channels_with_unread > 0
                       \/ rs[i].totals.mentions > 0}

\* C37: the aggregate over several tenants has, for each of the three totals,
\* the sum of the tenants' own totals, an error entry counting zero, and the
\* number of tenants with unread activity it reports is the number of tenants
\* whose own totals show any.
C37_AggregateTotals ==
    returned.kind = "combined" =>
        /\ \A key \in {"unread_dm_messages", "channels_with_unread", "mentions"} :
              returned.totals[key] = SumOf(returned.workspaces, key)
        /\ \A i \in DOMAIN returned.workspaces :
              returned.workspaces[i].error => returned.workspaces[i].totals = ZeroTotals
        /\ returned.active = Cardinality(ActiveTenants(returned.workspaces))

\* C38: under fair scheduling every acquire() returns: a task that has entered
\* acquire() reaches the point where it issues its call.  The lock is held only
\* by a task that sleeps inside acquire(), so it is free again after every
\* acquire(), also after one that did not have to wait, and no task waits for
\* a lock that is never released.
C38_AcquireReturns ==
    /\ [](\A t \in Tasks : lock = t => pc[t] = "rl_sleep")
    /\ \A t \in Tasks : (pc[t] = "acquire") ~> (pc[t] = "send")

\* a task has returned from an acquire() that did not sleep and has left the
\* lock free, while another task is waiting to enter
C38_Witness ==
    \E t, u \in Tasks :
        /\ pc[t] = "send"
        /\ mread[t] = 1
        /\ timer[t] = 0
        /\ pc[u] = "acquire"
        /\ since = 0
        /\ lock = 0

\* C39: a task that sleeps for Retry-After does not hold the rate controller's
\* lock.  While it sleeps, the lock is held only by a task sleeping inside
\* acquire(), for no longer than the interval times the multiplier that task
\* read; a task waiting to enter acquire() can enter as soon as the lock is
\* free, a task whose sleep inside acquire() is over can leave it, and a task
\* that has left it can issue its call.
C39_RetrySleepOutsideLock ==
    \A t \in Tasks :
        pc[t] = "retry_sleep" =>
            /\ lock # t
            /\ \A u \in Tasks \ {t} :
                  /\ lock = u => /\ pc[u] = "rl_sleep"
                                 /\ timer[u] <= Interval * mread[u]
                  /\ (pc[u] = "acquire" /\ lock = 0) => ENABLED AcquireEnter(u)
                  /\ (pc[u] = "rl_sleep" /\ timer[u] = 0) => ENABLED AcquireWake(u)
                  /\ pc[u] = "send" => ENABLED Send(u)

\* while one task sleeps for Retry-After, another has entered acquire() under
\* the raised multiplier, holds the lock, and its sleep is over
C39_Witness ==
    \E t, u \in Tasks :
        /\ pc[t] = "retry_sleep"
        /\ retry_after[t] = RetryAfterDefault
        /\ pc[u] = "rl_sleep"
        /\ lock = u
        /\ mread[u] = 2
        /\ timer[u] = 0

\* the step on which reload_config returns ok=false: no other step of the
\* manager reports an error, clears the answer and the last call, and leaves the
\* handler's reference alone
ReloadFailed ==
    /\ rpc = "idle"
    /\ result' = "error"
    /\ answer' = NoAnswer
    /\ lastCall' = <<>>
    /\ held' = held

\* C40: a reload_config that cannot load the new configuration returns
\* ok=false without a changes dict and leaves the registered clients, the open
\* or closed state of every client, and the current configuration with its
\* default tenant as they were before the call.
C40_FailedReloadChangesNothing ==
    [][ReloadFailed =>
          /\ rpc' = "idle"
          /\ changes' = NoChanges
          /\ clients' = clients
          /\ objs' = objs
          /\ config' = config
          /\ config'.default_workspace = config.default_workspace]_vars

\* a reload has failed while a handler holds a client that an earlier reload
\* replaced: a tenant is registered, its client is open, and the configuration
\* has a default tenant
C40_Witness ==
    /\ rpc = "idle"
    /\ result = "error"
    /\ answer = NoAnswer
    /\ lastCall = <<>>
    /\ held = Detached
    /\ config.default_workspace # NoName
    /\ \E n \in Names : clients[n] # 0 /\ objs[clients[n]].http

====
